---- MODULE Spec2Model ----
(***************************************************************************)
(* Verification model of the chat front end's client core:                 *)
(*   - the application state store (zustand) with its persist binding,     *)
(*   - the localStorage persistence adapter (customStorage),               *)
(*   - the retry helper (withRetry) and the error severity classifier,     *)
(*   - the remote list caches (session / source / query).                  *)
(*                                                                         *)
(* Conventions.  A JavaScript string is a sequence of one-character        *)
(* strings.  A JavaScript value that may be null is a tagged record        *)
(* [t |-> tag, v |-> payload].  Time is in milliseconds since the model    *)
(* epoch 2024-01-01T00:00:00.000Z (TLC integers are 32 bits wide).         *)
(***************************************************************************)
EXTENDS Integers, Sequences, FiniteSets, TLC

VARIABLES
    store,          \* the zustand state object of useAppStore
    localStorage,   \* window.localStorage, one slot per key
    now,            \* Date.now()
    lastOp,         \* the store action that ran last and what it was given
    opsLeft,        \* store or cache calls the run may still take
    retry,          \* one call of withRetry: its options, locals and trace
    cache,          \* the sessionCache, sourceCache and queryCache singletons
    disk,           \* one customStorage round trip: value saved, value loaded
    report,         \* one classifyErrorSeverity call: the error and its severity
    boot,           \* the hydration of the store from the stored blob
    errorLog,       \* the errorLogger singleton and what its last caller saw
    api,            \* the API store, the server behind it and its calls in flight
    http            \* one request of the API client through its interceptors

storeVars == <<store, localStorage, now, lastOp, opsLeft>>
edgeVars == <<boot, errorLog, api, http>>

(***************************************************************************)
(* Bounds of the exploration.                                              *)
(***************************************************************************)
MaxOps == 4             \* store actions in one run on sessions and messages
MaxAppOps == 3          \* store actions in one run over the whole store
MaxSessions == 2        \* sessions in chatSessions
MaxMessages == 2        \* messages in the flat list
MaxClock == 1           \* clock ticks after start-up
MaxAttemptsBound == 3   \* largest maxAttempts given to withRetry
MaxCacheOps == 3        \* cache calls in one run
MaxCacheTicks == 2      \* advances of the clock in one run of the caches
MaxOverfill == 4        \* calls on the query cache after it is full
MaxOverlog == 1         \* calls on the error logger after it is full
MaxApiOps == 5          \* API actions of the store in one run
MaxKeyOps == 2          \* query cache calls under colliding keys
MaxCalls == 2           \* remote calls that may fail in one run
MaxSignIns == 2         \* sign-ins in one run
MaxSignOps == 2         \* store actions of the chat page between sign-ins
MaxSelects == 2         \* sessions selected in the sidebar in one run
MaxQueries == 2         \* query submissions in one run
MaxStampOps == 3        \* store actions in one run on the time stamps of sessions

Min(a, b) == IF a <= b THEN a ELSE b

(***************************************************************************)
(* JavaScript values.                                                      *)
(***************************************************************************)
NaN == -1
JNull == [t |-> "null", v |-> <<>>]
undefined == [t |-> "undefined", v |-> <<>>]
JBool(b) == [t |-> "bool", v |-> b]
JNum(n) == [t |-> "num", v |-> n]
JStr(s) == [t |-> "str", v |-> s]
JDate(ms) == [t |-> "date", v |-> ms]
JArr(a) == [t |-> "arr", v |-> a]
JObj(f) == [t |-> "obj", v |-> f]

\* String.prototype.slice(0, n)
SliceTo(s, n) == SubSeq(s, 1, Min(n, Len(s)))

\* { ...s, ...u }
Spread(s, u) ==
    [f \in (DOMAIN s) \cup (DOMAIN u) |-> IF f \in DOMAIN u THEN u[f] ELSE s[f]]

(***************************************************************************)
(* Strings of the store.                                                   *)
(***************************************************************************)
TITLE_LEN == 60
StartTime == 1

NewChatTitle == <<"N", "e", "w", " ", "C", "h", "a", "t">>
LIGHT == <<"l", "i", "g", "h", "t">>
DARK == <<"d", "a", "r", "k">>
InitialChatId == <<"0">>              \* Date.now().toString() at module load
SessionIdA == <<"s", "a">>
SessionIdB == <<"s", "b">>
LongContent == [i \in 1..100 |-> "X"]
ShortContent == <<"h", "i">>
MsgId4 == <<"4">>

MessageIds == <<<<"2">>, <<"3">>, MsgId4>>    \* Date.now().toString(), in the order handed out

AllSourcesOn == [reddit |-> TRUE, stackoverflow |-> TRUE, github |-> TRUE, web |-> TRUE]

(***************************************************************************)
(* initialState of the store.                                              *)
(***************************************************************************)
\* the greeting of the assistant, its text abbreviated
WelcomeMessage(at) ==
    [id |-> <<"1">>, content |-> <<"H", "i", "!">>, isUser |-> FALSE, timestamp |-> at]

initialChatSession ==
    [id |-> InitialChatId,
     title |-> NewChatTitle,
     createdAt |-> StartTime,
     updatedAt |-> StartTime,
     tags |-> <<>>,
     hasExternalSources |-> FALSE,
     pinned |-> FALSE,
     messages |-> <<WelcomeMessage(StartTime)>>]

DefaultChatSettings ==
    [searchApprovalEnabled |-> TRUE,
     externalSources |-> AllSourcesOn,
     querySettings |->
        [model |-> <<"c", "o", "d", "e", "s", "t", "r", "a", "l">>,
         temperatureTenths |-> 7,
         topK |-> 5,
         memoryService |-> <<"a", "s", "t", "r", "a", "d", "b">>,
         category |-> <<"t", "u", "t">>,
         subCategory |-> <<"t", "u", "t">>,
         redditUsername |-> <<>>,
         relevance |-> <<"t", "o", "p">>]]

initialState ==
    [user |-> JNull,
     chatSessions |-> <<initialChatSession>>,
     activeChatId |-> JStr(initialChatSession.id),
     messages |-> initialChatSession.messages,
     chatSettings |-> DefaultChatSettings,
     appSettings |-> [theme |-> LIGHT, sidebarCollapsed |-> FALSE, rightPanelOpen |-> TRUE],
     assistantPanel |-> [isOpen |-> TRUE, selectedTags |-> <<>>, externalSources |-> AllSourcesOn],
     isLoading |-> FALSE,
     chatSettingsOpen |-> FALSE,
     externalDialogOpen |-> FALSE,
     pendingQuery |-> <<>>]

(***************************************************************************)
(* Persistence adapter (customStorage) over window.localStorage.  The      *)
(* stored text is kept as the JSON tree it denotes.                        *)
(***************************************************************************)
PERSIST_NAME == "app-store"
PERSIST_VERSION == 1
NoItem == [t |-> "absent", v |-> <<>>]

Digits == <<"0", "1", "2", "3", "4", "5", "6", "7", "8", "9">>
DigitOf(c) == (CHOOSE i \in 1..10 : Digits[i] = c) - 1
Pad2(n) == <<Digits[((n \div 10) % 10) + 1], Digits[(n % 10) + 1]>>
Num2(s, i) == DigitOf(s[i]) * 10 + DigitOf(s[i + 1])

MS_PER_SECOND == 1000
MS_PER_MINUTE == 60000
MS_PER_HOUR == 3600000
MS_PER_DAY == 86400000
EpochPrefix == <<"2", "0", "2", "4", "-", "0", "1", "-">>
EpochDays == 24      \* the model's calendar: 2024-01-01 .. 2024-01-24

\* Date.prototype.toISOString, for a time inside the model's calendar
toISOString(ms) ==
    EpochPrefix \o Pad2((ms \div MS_PER_DAY) + 1) \o <<"T">>
        \o Pad2((ms % MS_PER_DAY) \div MS_PER_HOUR) \o <<":">>
        \o Pad2((ms % MS_PER_HOUR) \div MS_PER_MINUTE) \o <<":">>
        \o Pad2((ms % MS_PER_MINUTE) \div MS_PER_SECOND) \o <<".">>
        \o <<Digits[(((ms % MS_PER_SECOND) \div 100) % 10) + 1]>>
        \o Pad2(ms % 100) \o <<"Z">>

\* /^\d{4}-\d{2}-\d{2}T\d{2}:\d{2}:\d{2}/.test(s)
MatchesDatePattern(s) ==
    /\ Len(s) >= 19
    /\ \A i \in {1, 2, 3, 4, 6, 7, 9, 10, 12, 13, 15, 16, 18, 19} : (\E d \in 1..10 : Digits[d] = s[i])
    /\ s[5] = "-" /\ s[8] = "-" /\ s[11] = "T" /\ s[14] = ":" /\ s[17] = ":"

\* the time value of new Date(s): the full ISO form inside the model's
\* calendar is read back field by field, any other text gives NaN
DateParse(s) ==
    IF /\ MatchesDatePattern(s)
       /\ Len(s) = 24
       /\ SubSeq(s, 1, 8) = EpochPrefix
       /\ s[20] = "." /\ s[24] = "Z"
       /\ \A i \in {21, 22, 23} : (\E d \in 1..10 : Digits[d] = s[i])
       /\ Num2(s, 9) \in 1..EpochDays
       /\ Num2(s, 12) < 24 /\ Num2(s, 15) < 60 /\ Num2(s, 18) < 60
    THEN (Num2(s, 9) - 1) * MS_PER_DAY + Num2(s, 12) * MS_PER_HOUR
            + Num2(s, 15) * MS_PER_MINUTE + Num2(s, 18) * MS_PER_SECOND + DigitOf(s[21]) * 100 + Num2(s, 22)
    ELSE NaN

\* JSON.stringify: a Date becomes its ISO text, an invalid Date becomes null
RECURSIVE Stringify(_)
Stringify(x) ==
    CASE x.t = "date" -> IF x.v = NaN THEN JNull ELSE JStr(toISOString(x.v))
      [] x.t = "obj" -> JObj([k \in DOMAIN x.v |-> Stringify(x.v[k])])
      [] x.t = "arr" -> JArr([i \in DOMAIN x.v |-> Stringify(x.v[i])])
      [] OTHER -> x

\* the reviver of getItem, applied bottom-up by JSON.parse
RECURSIVE Revive(_)
Revive(x) ==
    CASE x.t = "str" -> IF MatchesDatePattern(x.v) THEN JDate(DateParse(x.v)) ELSE x
      [] x.t = "obj" -> JObj([k \in DOMAIN x.v |-> Revive(x.v[k])])
      [] x.t = "arr" -> JArr([i \in DOMAIN x.v |-> Revive(x.v[i])])
      [] OTHER -> x

\* stored text that JSON.parse rejects
RawText(s) == [t |-> "text", v |-> s]
\* an exception leaving the adapter
Thrown == [t |-> "thrown", v |-> <<>>]

getItemUncaught(ls, name) ==
    IF ls[name] = NoItem \/ ls[name] = RawText(<<>>) THEN JNull
    ELSE IF ls[name].t = "text" THEN Thrown
    ELSE Revive(ls[name])

getItem(ls, name) ==
    IF ls[name] = NoItem \/ ls[name] = RawText(<<>>) THEN JNull
    ELSE IF ls[name].t = "text" THEN JNull
    ELSE Revive(ls[name])

\* `fits` is whether JSON.stringify and localStorage.setItem go through
setItem(ls, name, value, fits) ==
    IF fits THEN [ls EXCEPT ![name] = Stringify(value)] ELSE ls

removeItem(ls, name) == [ls EXCEPT ![name] = NoItem]

(***************************************************************************)
(* Persist binding of the store: partialize, and the write-through that    *)
(* follows every setState.                                                 *)
(***************************************************************************)
partializeWithSessions(state) ==
    [user |-> state.user,
     activeChatId |-> state.activeChatId,
     appSettings |-> state.appSettings,
     chatSettings |-> state.chatSettings,
     assistantPanel |-> state.assistantPanel,
     chatSessions |-> state.chatSessions,
     messages |-> state.messages]

partialize(state) ==
    [user |-> state.user,
     activeChatId |-> state.activeChatId,
     appSettings |-> state.appSettings,
     chatSettings |-> state.chatSettings,
     assistantPanel |-> state.assistantPanel]

JsSources(e) ==
    JObj([reddit |-> JBool(e.reddit), stackoverflow |-> JBool(e.stackoverflow),
          github |-> JBool(e.github), web |-> JBool(e.web)])

\* one field of the state as the JavaScript value JSON.stringify is given
JsField(state, f) ==
    CASE f = "user" ->
            IF state.user = JNull THEN JNull
            ELSE JObj([k \in DOMAIN state.user.v |-> JStr(state.user.v[k])])
      [] f = "activeChatId" -> state.activeChatId
      [] f = "appSettings" ->
            JObj([theme |-> JStr(state.appSettings.theme),
                  sidebarCollapsed |-> JBool(state.appSettings.sidebarCollapsed),
                  rightPanelOpen |-> JBool(state.appSettings.rightPanelOpen)])
      [] f = "chatSettings" ->
            JObj([searchApprovalEnabled |-> JBool(state.chatSettings.searchApprovalEnabled),
                  externalSources |-> JsSources(state.chatSettings.externalSources),
                  querySettings |->
                    LET q == state.chatSettings.querySettings IN
                    JObj([model |-> JStr(q.model),
                          temperatureTenths |-> JNum(q.temperatureTenths),
                          topK |-> JNum(q.topK), memoryService |-> JStr(q.memoryService),
                          category |-> JStr(q.category), subCategory |-> JStr(q.subCategory),
                          redditUsername |-> JStr(q.redditUsername),
                          relevance |-> JStr(q.relevance)])])
      [] f = "assistantPanel" ->
            JObj([isOpen |-> JBool(state.assistantPanel.isOpen),
                  selectedTags |-> JArr([i \in DOMAIN state.assistantPanel.selectedTags |->
                                            JStr(state.assistantPanel.selectedTags[i])]),
                  externalSources |-> JsSources(state.assistantPanel.externalSources)])
      [] f = "pendingQuery" -> JStr(state.pendingQuery)
      [] f \in {"isLoading", "chatSettingsOpen", "externalDialogOpen"} -> JBool(state[f])
      [] f \in {"chatSessions", "messages"} ->
            JArr([i \in DOMAIN state[f] |-> JObj([id |-> JStr(state[f][i].id)])])

\* the JavaScript object { state: <partial state>, version } handed to setItem
StorageValue(partial, version) ==
    JObj([state |-> JObj([f \in DOMAIN partial |-> JsField(partial, f)]),
          version |-> JNum(version)])

(***************************************************************************)
(* The store actions that rewrite sessions or messages, as functions from  *)
(* the current state to the next one.  `at` is the value of new Date()     *)
(* when the action runs.                                                   *)
(***************************************************************************)
IsActive(state, s) == state.activeChatId = JStr(s.id)

deleteChatSessionKeepsActive(state, id) ==
    [state EXCEPT !.chatSessions = SelectSeq(state.chatSessions, LAMBDA s : s.id # id)]

deleteChatSession(state, id) ==
    LET filtered == SelectSeq(state.chatSessions, LAMBDA s : s.id # id)
    IN  [state EXCEPT
            !.chatSessions = filtered,
            !.activeChatId =
                IF state.activeChatId = JStr(id)
                THEN IF Len(filtered) > 0 THEN JStr(filtered[1].id) ELSE JNull
                ELSE state.activeChatId]

addMessageOntoSession(state, message, at) ==
    [state EXCEPT
        !.messages = Append(state.messages, message),
        !.chatSessions =
            [i \in DOMAIN state.chatSessions |->
                LET s == state.chatSessions[i]
                IN IF IsActive(state, s)
                              THEN [s EXCEPT
                                      !.messages = Append(s.messages, message),
                                      !.updatedAt = at,
                                      !.title = IF Len(s.messages) = 0
                                                THEN SliceTo(message.content, TITLE_LEN)
                                                ELSE s.title]
                              ELSE s]]

addMessage(state, message, at) ==
    LET updatedMessages == Append(state.messages, message)
        updatedSessions ==
            [i \in DOMAIN state.chatSessions |->
                LET s == state.chatSessions[i]
                IN IF IsActive(state, s)
                              THEN [s EXCEPT
                                      !.messages = updatedMessages,
                                      !.updatedAt = at,
                                      !.title = IF Len(s.messages) = 0
                                                THEN SliceTo(message.content, TITLE_LEN)
                                                ELSE s.title]
                              ELSE s]
    IN  [state EXCEPT !.messages = updatedMessages, !.chatSessions = updatedSessions]

updateMessage(state, id, updates, at) ==
    LET updatedMessages ==
            [i \in DOMAIN state.messages |->
                LET m == state.messages[i]
                IN IF m.id = id THEN Spread(m, updates) ELSE m]
        updatedSessions ==
            [i \in DOMAIN state.chatSessions |->
                LET s == state.chatSessions[i]
                IN IF IsActive(state, s)
                              THEN [s EXCEPT !.messages = updatedMessages, !.updatedAt = at]
                              ELSE s]
    IN  [state EXCEPT !.messages = updatedMessages, !.chatSessions = updatedSessions]

deleteMessage(state, id, at) ==
    LET updatedMessages == SelectSeq(state.messages, LAMBDA m : m.id # id)
        updatedSessions ==
            [i \in DOMAIN state.chatSessions |->
                LET s == state.chatSessions[i]
                IN IF IsActive(state, s)
                              THEN [s EXCEPT !.messages = updatedMessages, !.updatedAt = at]
                              ELSE s]
    IN  [state EXCEPT !.messages = updatedMessages, !.chatSessions = updatedSessions]

resetStoreKeepsUser(state) == Spread(state, [initialState EXCEPT !.user = state.user])

resetStore(state) == Spread(state, initialState)

(***************************************************************************)
(* What the callers hand to the store.                                     *)
(***************************************************************************)
REDDIT == <<"r", "e", "d", "d", "i", "t">>
UserA == [id |-> <<"u", "1">>, username |-> <<"a", "n", "n">>]

\* a session as the session sync effect converts it from the API's record
ConvertedSession(id) ==
    [id |-> id, title |-> <<"D", "o", "c", "s">>, createdAt |-> StartTime, updatedAt |-> StartTime,
     tags |-> <<>>, hasExternalSources |-> FALSE, pinned |-> FALSE, messages |-> <<>>]

RemoteQuestion == [id |-> <<"7", "-", "q">>, content |-> ShortContent, isUser |-> TRUE,
                   timestamp |-> StartTime]

SessionIdsOf(state) == {state.chatSessions[i].id : i \in DOMAIN state.chatSessions}
MessageIdsOf(state) == {state.messages[i].id : i \in DOMAIN state.messages}
AllSessionIds == {SessionIdA, SessionIdB, InitialChatId}

\* the session activeChatId names, when it names one
ActiveNamesSession(state) ==
    \E i \in DOMAIN state.chatSessions : IsActive(state, state.chatSessions[i])
ActiveSession(state) ==
    state.chatSessions[CHOOSE i \in DOMAIN state.chatSessions :
                            IsActive(state, state.chatSessions[i])]

\* the next id Date.now().toString() hands out: one no message carries yet
FreshMessageId(state) ==
    MessageIds[CHOOSE i \in DOMAIN MessageIds :
                  /\ MessageIds[i] \notin MessageIdsOf(state)
                  /\ \A j \in 1..(i - 1) : MessageIds[j] \in MessageIdsOf(state)]

Ran(name, id, wasActive, hadUser) ==
    [op |-> name, id |-> id, wasActive |-> wasActive, hadUser |-> hadUser]

\* an action no property asks about by name
Other == Ran("other", <<>>, FALSE, FALSE)

(***************************************************************************)
(* withRetry.  One call: the options destructured on entry, the loop       *)
(* variable, lastError, and a trace of what the call did.  An error is an  *)
(* object; ref is its identity (the invocation that created it).           *)
(***************************************************************************)
ErrorObject(ref, status) == [t |-> "error", v |-> [ref |-> ref, status |-> status]]

NotCalled ==
    [pc |-> "idle", maxAttempts |-> 0, delay |-> 0, backoff |-> TRUE, onRetry |-> FALSE,
     attempt |-> 0, lastError |-> undefined, inFlight |-> 0,
     invoked |-> <<>>, retried |-> <<>>, waited |-> <<>>, settled |-> undefined]

\* const { maxAttempts, delay, backoff = true, onRetry } = options
Destructure(maxAttempts, delay, backoff, onRetry) ==
    [NotCalled EXCEPT !.maxAttempts = maxAttempts,
                      !.delay = delay,
                      !.backoff = IF backoff = undefined THEN TRUE ELSE backoff.v,
                      !.onRetry = onRetry,
                      !.attempt = 1]

LoopContinuesStrict(attempt, maxAttempts) == attempt < maxAttempts
\* the loop condition
LoopContinues(attempt, maxAttempts) == attempt <= maxAttempts

\* the head of the loop: either fn() is invoked and awaited, or the loop is
\* left and lastError is thrown
LoopHead(r) ==
    IF LoopContinues(r.attempt, r.maxAttempts)
    THEN [r EXCEPT !.pc = "await", !.inFlight = @ + 1]
    ELSE [r EXCEPT !.pc = "rejected", !.settled = r.lastError]

CaughtFirst(lastError, error) == IF lastError = undefined THEN error ELSE lastError
\* lastError = error as Error
Caught(lastError, error) == error

currentDelayConstant(r) == r.delay
currentDelay(r) == IF r.backoff THEN r.delay * (2 ^ (r.attempt - 1)) ELSE r.delay

\* the catch block, up to the break or to the await of the timer: onRetry is
\* called, then the timer is set; a wait is recorded with the number of
\* onRetry calls made by then
Catch(r, error) ==
    LET c == [r EXCEPT !.lastError = Caught(r.lastError, error)]
        notified == [c EXCEPT !.retried =
                        IF c.onRetry
                        THEN Append(@, [attempt |-> c.attempt, error |-> c.lastError])
                        ELSE @]
    IN  IF c.attempt = c.maxAttempts
        THEN [c EXCEPT !.pc = "rejected", !.settled = c.lastError]
        ELSE [notified EXCEPT !.pc = "sleep",
                              !.waited = Append(@, [ms |-> currentDelay(c),
                                                    retried |-> Len(notified.retried)])]

RetryStep(r) ==
    /\ retry' = r
    /\ UNCHANGED <<storeVars, cache, disk, report, edgeVars>>

OperationResolves ==
    /\ retry.pc = "await"
    /\ \E value \in {[t |-> "response", v |-> 1], [t |-> "response", v |-> 2]} :
          RetryStep([retry EXCEPT !.pc = "resolved",
                                  !.inFlight = @ - 1,
                                  !.invoked = Append(@, [ok |-> TRUE, settled |-> value]),
                                  !.settled = value])

OperationRejects ==
    /\ retry.pc = "await"
    /\ \E status \in {404, 500} :
          LET error == ErrorObject(Len(retry.invoked) + 1, status) IN
          RetryStep(Catch([retry EXCEPT !.inFlight = @ - 1,
                                        !.invoked = Append(@, [ok |-> FALSE, settled |-> error])],
                          error))

TimerFires ==
    /\ retry.pc = "sleep"
    /\ RetryStep(LoopHead([retry EXCEPT !.attempt = @ + 1]))

RetryNext ==
    \* withRetry is called
    \/ /\ retry.pc = "idle"
       /\ \E maxAttempts \in (-1)..MaxAttemptsBound, delay \in {1000},
             backoff \in {undefined, JBool(TRUE), JBool(FALSE)}, onRetry \in BOOLEAN :
             RetryStep(LoopHead(Destructure(maxAttempts, delay, backoff, onRetry)))
    \/ OperationResolves
    \/ OperationRejects
    \/ TimerFires

(***************************************************************************)
(* The remote list caches.  A Map is a function from the keys in use to    *)
(* the value held or undefined (SessionCache), or the sequence of its      *)
(* entries in insertion order (QueryCache).  Date.now() is far above zero, *)
(* so a stored time stamp is never falsy.                                  *)
(***************************************************************************)
SESSION_CACHE_DURATION == 5 * 60 * 1000
QUERY_CACHE_DURATION == 10 * 60 * 1000
SOURCE_CACHE_DURATION == 5 * 60 * 1000
MAX_CACHE_SIZE == 100

toLowerCase(s) ==
    LET UpperCase == <<"A", "B", "C", "D", "E", "F", "G", "H", "I", "J", "K", "L", "M",
                       "N", "O", "P", "Q", "R", "S", "T", "U", "V", "W", "X", "Y", "Z">>
        LowerCase == <<"a", "b", "c", "d", "e", "f", "g", "h", "i", "j", "k", "l", "m",
                       "n", "o", "p", "q", "r", "s", "t", "u", "v", "w", "x", "y", "z">>
    IN [i \in DOMAIN s |-> IF \E k \in DOMAIN UpperCase : UpperCase[k] = s[i]
                           THEN LowerCase[CHOOSE k \in DOMAIN UpperCase : UpperCase[k] = s[i]]
                           ELSE s[i]]

trim(s) ==
    LET inked == {i \in DOMAIN s : s[i] \notin {" ", "\t", "\n"}} IN
    IF inked = {} THEN <<>>
    ELSE SubSeq(s, CHOOSE i \in inked : \A j \in inked : i <= j,
                   CHOOSE i \in inked : \A j \in inked : i >= j)

RECURSIVE IntegerText(_)
IntegerText(n) ==
    IF n < 10 THEN <<Digits[n + 1]>> ELSE IntegerText(n \div 10) \o <<Digits[(n % 10) + 1]>>

\* a template literal prints an optional string that is missing as
\* "undefined", and a number with one decimal (held in tenths) as n.d
generateCacheKey(query, state) ==
    LET OptionalText(x) ==
            IF x = undefined THEN <<"u", "n", "d", "e", "f", "i", "n", "e", "d">> ELSE x.v
        TenthsText(t) ==
            IF t % 10 = 0 THEN IntegerText(t \div 10)
            ELSE IntegerText(t \div 10) \o <<".">> \o <<Digits[(t % 10) + 1]>>
        stateKey == state.model_name \o <<"-">> \o OptionalText(state.category) \o <<"-">>
                    \o OptionalText(state.sub_category) \o <<"-">>
                    \o TenthsText(state.temperatureTenths) \o <<"-">>
                    \o IntegerText(state.top_k)
    IN trim(toLowerCase(query)) \o <<"-">> \o stateKey

\* what the callers store
CacheUserIds == {UserA.id}
SourceData(id, name) == [id |-> <<"s", id>>, name |-> <<name>>]
Queries == {<<"H", "i">>, <<" ", "h", "i", " ">>, <<"y", "o">>}
QueryStates ==
    {[model_name |-> <<"m">>, category |-> JStr(<<"t">>), sub_category |-> undefined,
      temperatureTenths |-> 7, top_k |-> 12]}
Call(which, op, key, value, result) ==
    [cache |-> which, op |-> op, key |-> key, value |-> value, result |-> result]

\* the three singletons as constructed, with the record of the last call
\* and, per slot, the time of the set that stored what the slot holds (0: none)
EmptyCaches ==
    [session |-> [cache |-> [u \in CacheUserIds |-> undefined],
                  lastUpdate |-> [u \in CacheUserIds |-> undefined]],
     source |-> [cache |-> JNull, lastUpdate |-> JNull],
     query |-> <<>>,
     ticks |-> 0,
     last |-> Call("none", "none", <<>>, JNull, JNull),
     insertedAt |-> [session |-> [u \in CacheUserIds |-> 0],
                     source |-> 0,
                     query |-> [k \in {generateCacheKey(q, s) : q \in Queries, s \in QueryStates} |-> 0]]]

\* SessionCache
SessionCacheSet(c, userId, sessions, at) ==
    [c EXCEPT !.session.cache[userId] = sessions,
              !.session.lastUpdate[userId] = JNum(at),
              !.insertedAt.session[userId] = at,
              !.last = Call("session", "set", userId, sessions, JNull)]

SessionCacheDelete(c, userId) ==
    [c EXCEPT !.session.cache[userId] = undefined,
              !.session.lastUpdate[userId] = undefined,
              !.insertedAt.session[userId] = 0]

SessionCacheGet(c, userId, at) ==
    LET sessions == c.session.cache[userId]
        lastUpdate == c.session.lastUpdate[userId]
    IN IF sessions = undefined \/ lastUpdate = undefined
       THEN [c EXCEPT !.last = Call("session", "get", userId, JNull, JNull)]
       ELSE IF at - lastUpdate.v > SESSION_CACHE_DURATION
            THEN [SessionCacheDelete(c, userId) EXCEPT
                      !.last = Call("session", "get", userId, JNull, JNull)]
            ELSE [c EXCEPT !.last = Call("session", "get", userId, JNull, sessions)]

SessionCacheInvalidate(c, userId) ==
    [SessionCacheDelete(c, userId) EXCEPT
        !.last = Call("session", "invalidate", userId, JNull, JNull)]

SessionCacheClear(c) ==
    [c EXCEPT !.session = EmptyCaches.session,
              !.insertedAt.session = EmptyCaches.insertedAt.session,
              !.last = Call("session", "clear", <<>>, JNull, JNull)]

\* SourceCache
SourceCacheEmptied(c) ==
    [c EXCEPT !.source = [cache |-> JNull, lastUpdate |-> JNull],
              !.insertedAt.source = 0]

SourceCacheGet(c, at) ==
    IF c.source.cache = JNull \/ c.source.lastUpdate = JNull
    THEN [c EXCEPT !.last = Call("source", "get", <<>>, JNull, JNull)]
    ELSE IF at - c.source.lastUpdate.v > SOURCE_CACHE_DURATION
         THEN [SourceCacheEmptied(c) EXCEPT !.last = Call("source", "get", <<>>, JNull, JNull)]
         ELSE [c EXCEPT !.last = Call("source", "get", <<>>, JNull, c.source.cache)]

SourceCacheSet(c, sources, at) ==
    [c EXCEPT !.source = [cache |-> JArr(sources), lastUpdate |-> JNum(at)],
              !.insertedAt.source = at,
              !.last = Call("source", "set", <<>>, JArr(sources), JNull)]

SourceCacheAddSource(c, source, at) ==
    LET called == [c EXCEPT !.last = Call("source", "addSource", source.id, JNull, JNull)] IN
    IF c.source.cache = JNull THEN called
    ELSE LET list == c.source.cache.v
             found == {i \in DOMAIN list : list[i].id = source.id}
             existingIndex == IF found = {} THEN -1
                              ELSE CHOOSE i \in found : \A j \in found : i <= j
         IN [called EXCEPT
                !.source.cache = JArr(IF existingIndex >= 0
                                      THEN [list EXCEPT ![existingIndex] = source]
                                      ELSE Append(list, source)),
                !.source.lastUpdate = JNum(at)]

SourceCacheRemoveSource(c, sourceId, at) ==
    LET called == [c EXCEPT !.last = Call("source", "removeSource", sourceId, JNull, JNull)] IN
    IF c.source.cache = JNull THEN called
    ELSE [called EXCEPT
             !.source.cache = JArr(SelectSeq(c.source.cache.v, LAMBDA s : s.id # sourceId)),
             !.source.lastUpdate = JNum(at)]

SourceCacheClear(c) ==
    [SourceCacheEmptied(c) EXCEPT !.last = Call("source", "clear", <<>>, JNull, JNull)]

SourceCacheIsValid(c, at) ==
    [c EXCEPT !.last = Call("source", "isValid", <<>>, JNull,
                            JBool(/\ c.source.cache # JNull
                                  /\ c.source.lastUpdate # JNull
                                  /\ at - c.source.lastUpdate.v <= SOURCE_CACHE_DURATION))]

\* QueryCache
QueryIndex(entries, key) ==
    IF \E i \in DOMAIN entries : entries[i].key = key
    THEN CHOOSE i \in DOMAIN entries : entries[i].key = key
    ELSE 0

QueryCacheDelete(c, key) ==
    [c EXCEPT !.query = SelectSeq(@, LAMBDA e : e.key # key),
              !.insertedAt.query[key] = 0]

QueryCacheGet(c, query, state, at) ==
    LET key == generateCacheKey(query, state)
        i == QueryIndex(c.query, key)
    IN IF i = 0
       THEN [c EXCEPT !.last = Call("query", "get", key, JNull, JNull)]
       ELSE IF at - c.query[i].timestamp > QUERY_CACHE_DURATION
            THEN [QueryCacheDelete(c, key) EXCEPT !.last = Call("query", "get", key, JNull, JNull)]
            ELSE [c EXCEPT !.last = Call("query", "get", key, JNull, c.query[i].response)]

QueryCacheSet(c, query, state, response, at) ==
    LET key == generateCacheKey(query, state)
        \* the oldest key is dropped when the cache is full; an empty key is kept
        room == IF Len(c.query) >= MAX_CACHE_SIZE /\ c.query[1].key # <<>>
                THEN QueryCacheDelete(c, c.query[1].key)
                ELSE c
        i == QueryIndex(room.query, key)
        entry == [key |-> key, response |-> response, timestamp |-> at]
    IN [room EXCEPT !.query = IF i = 0 THEN Append(@, entry) ELSE [@ EXCEPT ![i] = entry],
                    !.insertedAt.query[key] = at,
                    !.last = Call("query", "set", key, response, JNull)]

QueryCacheClear(c) ==
    [c EXCEPT !.query = <<>>,
              !.insertedAt.query = EmptyCaches.insertedAt.query,
              !.last = Call("query", "clear", <<>>, JNull, JNull)]

(***************************************************************************)
(* Steps of the caches and of the clock they read.                         *)
(***************************************************************************)
CacheStep(c) ==
    /\ opsLeft > 0
    /\ opsLeft' = opsLeft - 1
    /\ cache' = c
    /\ UNCHANGED <<store, localStorage, now, lastOp, retry, disk, report, edgeVars>>

CacheNext ==
    \* the clock advances between two calls
    \/ /\ cache.ticks < MaxCacheTicks
       /\ \E step \in {1, SESSION_CACHE_DURATION, QUERY_CACHE_DURATION} :
             /\ now' = now + step
             /\ cache' = [cache EXCEPT !.ticks = @ + 1]
       /\ UNCHANGED <<store, localStorage, lastOp, opsLeft, retry, disk, report, edgeVars>>
    \/ \E u \in CacheUserIds, r \in {JArr(<<SessionIdA>>), JArr(<<SessionIdA, SessionIdB>>)} :
          CacheStep(SessionCacheSet(cache, u, r, now))
    \/ \E u \in CacheUserIds : CacheStep(SessionCacheGet(cache, u, now))
    \/ \E u \in CacheUserIds : CacheStep(SessionCacheInvalidate(cache, u))
    \/ CacheStep(SessionCacheClear(cache))
    \/ CacheStep(SourceCacheGet(cache, now))
    \/ \E l \in {<<>>, <<SourceData("1", "a")>>} : CacheStep(SourceCacheSet(cache, l, now))
    \/ \E s \in {SourceData("2", "b"), SourceData("1", "c")} :
          CacheStep(SourceCacheAddSource(cache, s, now))
    \/ \E s \in {SourceData("1", "a"), SourceData("2", "b")} :
          CacheStep(SourceCacheRemoveSource(cache, s.id, now))
    \/ CacheStep(SourceCacheClear(cache))
    \/ CacheStep(SourceCacheIsValid(cache, now))
    \/ \E q \in Queries, s \in QueryStates : CacheStep(QueryCacheGet(cache, q, s, now))
    \/ \E q \in Queries, s \in QueryStates,
          r \in {JObj([answer |-> <<"a", "1">>]), JObj([answer |-> <<"a", "2">>])} :
          CacheStep(QueryCacheSet(cache, q, s, r, now))
    \/ CacheStep(QueryCacheClear(cache))

\* The query cache filled up: every call reads a later Date.now(); queries
\* never asked before come one per call, and the two queries asked first
\* are asked again around the time the cache is full.
QueryFullNext ==
    /\ now < MAX_CACHE_SIZE + MaxOverfill
    /\ now' = now + 1
    /\ UNCHANGED <<store, localStorage, lastOp, opsLeft, retry, disk, report, edgeVars>>
    /\ LET s == CHOOSE qs \in QueryStates : TRUE
           r == JObj([answer |-> <<"a", "1">>])
           held == {IntegerText(1), IntegerText(2)}
       IN  \/ cache' = QueryCacheSet(cache, IntegerText(now), s, r, now)
           \/ /\ Len(cache.query) >= MAX_CACHE_SIZE - 1
              /\ \E q \in held : cache' = QueryCacheSet(cache, q, s, r, now)
           \/ /\ Len(cache.query) >= MAX_CACHE_SIZE - 1
              /\ \E q \in held : cache' = QueryCacheGet(cache, q, s, now)
           \/ /\ Len(cache.query) >= MAX_CACHE_SIZE
              /\ cache' = QueryCacheClear(cache)

(***************************************************************************)
(* One round trip through customStorage: a value is saved under the        *)
(* store's key and read back.                                              *)
(***************************************************************************)
NotLoaded == [t |-> "pending", v |-> <<>>]


\* a value of the shape the persist binding hands to setItem
PersistableValue(username, activeChatId, at) ==
    JObj([state |-> JObj([user |-> JObj([id |-> JStr(UserA.id), username |-> JStr(username)]),
                          activeChatId |-> activeChatId,
                          lastSeen |-> JDate(at),
                          tags |-> JArr(<<JStr(REDDIT)>>)]),
          version |-> JNum(PERSIST_VERSION)])

\* user names: empty, plain, an ISO time stamp, a note that starts like one,
\* and a date written with a blank
PersistableValues ==
    {PersistableValue(u, a, d) :
        u \in {<<>>,
               UserA.username,
               <<"2", "0", "2", "4", "-", "0", "1", "-", "0", "2", "T", "0", "3", ":", "0", "4", ":", "0", "5", ".", "0", "0", "6", "Z">>,
               <<"2", "0", "2", "4", "-", "0", "1", "-", "0", "2", "T", "0", "3", ":", "0", "4", ":", "0", "5", " ", "n", "o", "t", "e", "s">>,
               <<"2", "0", "2", "4", "-", "0", "1", "-", "0", "2", " ", "0", "3", ":", "0", "4", ":", "0", "5">>},
        a \in {JNull, JStr(InitialChatId), JStr(SessionIdA)},
        d \in {0, 1, MS_PER_DAY - 1,
               MS_PER_DAY + MS_PER_HOUR + MS_PER_MINUTE + MS_PER_SECOND + 1,
               (2 * MS_PER_DAY) - 1}}

DiskStep(ls, d) ==
    /\ localStorage' = ls
    /\ disk' = d
    /\ UNCHANGED <<store, now, lastOp, opsLeft, retry, cache, report, edgeVars>>

DiskNext ==
    \* setItem
    \/ \E value \in PersistableValues :
           DiskStep(setItem(localStorage, PERSIST_NAME, value, TRUE),
                    [op |-> "setItem", saved |-> value, loaded |-> NotLoaded])
    \* getItem
    \/ DiskStep(localStorage,
                [disk EXCEPT !.op = "getItem", !.loaded = getItem(localStorage, PERSIST_NAME)])
    \* removeItem
    \/ DiskStep(removeItem(localStorage, PERSIST_NAME),
                [op |-> "removeItem", saved |-> NotLoaded, loaded |-> NotLoaded])
    \* setItem when the quota is used up or the value cannot be serialized
    \/ \E value \in PersistableValues :
          DiskStep(setItem(localStorage, PERSIST_NAME, value, FALSE),
                   [disk EXCEPT !.op = "setItem failed", !.loaded = NotLoaded])
    \* the slot is overwritten from outside the application
    \/ \E text \in {<<>>, <<"{">>, <<"o", "o", "p", "s">>} :
          DiskStep([localStorage EXCEPT ![PERSIST_NAME] = RawText(text)],
                   [op |-> "edited", saved |-> NotLoaded, loaded |-> NotLoaded])

(***************************************************************************)
(* classifyErrorSeverity.  An error is given by its status and code        *)
(* properties (absent, undefined or a value) and its message.              *)
(***************************************************************************)
NETWORK_ERROR == <<"N", "E", "T", "W", "O", "R", "K", "_", "E", "R", "R", "O", "R">>
NothingReported == [error |-> JNull, severity |-> "none"]
TypeError == "TypeError"

\* String.prototype.includes
includes(s, sub) ==
    \E i \in 0..(Len(s) - Len(sub)) : SubSeq(s, i + 1, i + Len(sub)) = sub

StatusSeverityRateLimitHigh(status) ==
    CASE status \in {400, 422} -> "low"
      [] status \in {401, 403} -> "medium"
      [] status = 404 -> "low"
      [] status \in {429, 500, 502, 503, 504} -> "high"
      [] OTHER -> "medium"

\* the switch on error.status
StatusSeverity(status) ==
    CASE status \in {400, 422} -> "low"
      [] status \in {401, 403} -> "medium"
      [] status = 404 -> "low"
      [] status = 429 -> "medium"
      [] status \in {500, 502, 503, 504} -> "high"
      [] OTHER -> "medium"

\* An error is an object, given by its properties, or another value, given
\* as the tagged value it is.  `'status' in error` throws a TypeError on a
\* value that is no object, and error.message.toLowerCase() on an object
\* without message.
classifyErrorSeverity(error) ==
    IF "t" \in DOMAIN error
    THEN TypeError
    ELSE IF error.status.t = "num" /\ error.status.v # 0
    THEN StatusSeverity(error.status.v)
    ELSE IF error.code = JStr(NETWORK_ERROR)
    THEN "high"
    ELSE IF "message" \notin DOMAIN error
    THEN TypeError
    ELSE LET message == toLowerCase(error.message) IN
         IF includes(message, <<"n", "e", "t", "w", "o", "r", "k">>) \/ includes(message, <<"c", "o", "n", "n", "e", "c", "t", "i", "o", "n">>)
         THEN "high"
         ELSE IF includes(message, <<"v", "a", "l", "i", "d", "a", "t", "i", "o", "n">>) \/ includes(message, <<"i", "n", "v", "a", "l", "i", "d">>)
         THEN "low"
         ELSE IF includes(message, <<"u", "n", "a", "u", "t", "h", "o", "r", "i", "z", "e", "d">>) \/ includes(message, <<"f", "o", "r", "b", "i", "d", "d", "e", "n">>)
         THEN "medium"
         ELSE "medium"

\* the errors the callers report
NetworkMessage == <<"N", "e", "t", "w", "o", "r", "k", " ", "e", "r", "r", "o", "r", ".", " ", "P", "l", "e", "a", "s", "e", " ", "c", "h", "e", "c", "k", " ", "y", "o", "u", "r", " ", "c", "o", "n", "n", "e", "c", "t", "i", "o", "n", ".">>
Errors ==
    {[status |-> s, code |-> c, message |-> m] :
        s \in {NoItem, undefined}
                \cup {JNum(n) : n \in {400, 401, 403, 404, 418, 422, 429, 500, 502, 503, 504}},
        c \in {NoItem, JStr(NETWORK_ERROR), JStr(<<"E", "C", "O", "N", "N", "A", "B", "O", "R", "T", "E", "D">>)},
        m \in {<<>>,
               NetworkMessage,
               <<"C", "o", "n", "n", "e", "c", "t", "i", "o", "n", " ", "r", "e", "f", "u", "s", "e", "d">>,
               <<"V", "a", "l", "i", "d", "a", "t", "i", "o", "n", " ", "f", "a", "i", "l", "e", "d">>,
               <<"I", "n", "v", "a", "l", "i", "d", " ", "s", "e", "s", "s", "i", "o", "n", " ", "i", "d">>,
               <<"U", "n", "a", "u", "t", "h", "o", "r", "i", "z", "e", "d">>,
               <<"A", "c", "c", "e", "s", "s", " ", "F", "O", "R", "B", "I", "D", "D", "E", "N">>,
               <<"S", "o", "m", "e", "t", "h", "i", "n", "g", " ", "w", "e", "n", "t", " ", "w", "r", "o", "n", "g">>}}

Classify ==
    /\ \E error \in Errors :
          report' = [error |-> JObj(error), severity |-> classifyErrorSeverity(error)]
    /\ UNCHANGED <<storeVars, retry, cache, disk, edgeVars>>

(***************************************************************************)
(* The error logger and handleError.  crypto.randomUUID() is a string not  *)
(* drawn before: the number of the draw.  A call that throws leaves Thrown *)
(* as its result.                                                          *)
(***************************************************************************)
maxLogs == 100

\* the logger as constructed; `logged` keeps every entry as it was logged,
\* `calls` and `toasts` count the calls made and the toasts shown, `last`
\* is the last call
EmptyLog ==
    [logs |-> <<>>, uuids |-> 0, logged |-> <<>>, calls |-> 0, toasts |-> 0,
     last |-> [op |-> "none", error |-> JNull, result |-> JNull]]

ErrorLoggerLogPushes(l, error, context, at) ==
    LET id == IntegerText(l.uuids + 1)
        severity == classifyErrorSeverity(error)
        entry == [id |-> id, timestamp |-> at, error |-> error, context |-> context,
                     severity |-> severity, handled |-> FALSE]
        drawn == [l EXCEPT !.uuids = @ + 1, !.calls = @ + 1]
    IN  IF severity = TypeError
        THEN [drawn EXCEPT !.last = [op |-> "log", error |-> error, result |-> Thrown]]
        ELSE [drawn EXCEPT !.logs = SliceTo(@ \o <<entry>>, maxLogs),
                            !.logged = Append(@, entry),
                            !.last = [op |-> "log", error |-> error, result |-> JStr(id)]]

ErrorLoggerLog(l, error, context, at) ==
    LET id == IntegerText(l.uuids + 1)
        severity == classifyErrorSeverity(error)
        entry == [id |-> id, timestamp |-> at, error |-> error, context |-> context,
                     severity |-> severity, handled |-> FALSE]
        drawn == [l EXCEPT !.uuids = @ + 1, !.calls = @ + 1]
    IN  IF severity = TypeError
        THEN [drawn EXCEPT !.last = [op |-> "log", error |-> error, result |-> Thrown]]
        ELSE [drawn EXCEPT !.logs = SliceTo(<<entry>> \o @, maxLogs),
                            !.logged = Append(@, entry),
                            !.last = [op |-> "log", error |-> error, result |-> JStr(id)]]

markAsHandled(l, id) ==
    LET found == {j \in DOMAIN l.logs : l.logs[j].id = id}
        first == CHOOSE j \in found : \A k \in found : j <= k
    IN  IF found = {} THEN l ELSE [l EXCEPT !.logs[first].handled = TRUE]

\* the message shown for an error: its text and where it comes from; a
\* context without action has the action ""
getErrorDisplayMessage(error, context) ==
    LET contextMessages ==
            [login |-> "Failed to log in. Please check your credentials.",
             logout |-> "Failed to log out. Please try again.",
             session_create |-> "Failed to create chat session. Please try again.",
             session_load |-> "Failed to load chat sessions. Please refresh the page.",
             message_load |-> "Failed to load messages. Please try again.",
             query_submit |-> "Failed to send your message. Please check your connection and try again.",
             source_load |-> "Failed to load sources. Please refresh the page.",
             source_delete |-> "Failed to delete source. Please try again."]
        actionKey == context.action
    IN  IF actionKey # "" /\ actionKey \in DOMAIN contextMessages
        THEN [from |-> "context", text |-> contextMessages[actionKey]]
        ELSE IF error \in {JNull, undefined}
        THEN Thrown
        ELSE IF "message" \in DOMAIN error /\ error.message # <<>>
        THEN [from |-> "error", text |-> error.message]
        ELSE [from |-> "default", text |-> "An unexpected error occurred"]

\* handleError without the try around the custom handler
handleErrorUncaught(l, error, context, options, at) ==
    LET logged == IF options.logError THEN ErrorLoggerLog(l, error, context, at)
                  ELSE [l EXCEPT !.calls = @ + 1]
        toasted == IF options.showToast THEN [logged EXCEPT !.toasts = @ + 1] ELSE logged
        errorId == IF options.logError THEN logged.last.result ELSE JStr(<<>>)
        threw == \/ errorId = Thrown
                 \/ options.customMessage \in {NoItem, JStr(<<>>)}
                       /\ getErrorDisplayMessage(error, context) = Thrown
                 \/ options.showToast /\ classifyErrorSeverity(error) = TypeError
    IN  IF threw
        THEN [logged EXCEPT !.last = [op |-> "handleError", error |-> error, result |-> Thrown,
                                      onError |-> options.onError]]
        ELSE IF options.onError = "throws"
        THEN [toasted EXCEPT !.last = [op |-> "handleError", error |-> error,
                                       result |-> Thrown, onError |-> options.onError]]
        ELSE [(IF errorId.v # <<>> THEN markAsHandled(toasted, errorId.v) ELSE toasted)
                 EXCEPT !.last = [op |-> "handleError", error |-> error, result |-> errorId,
                                  onError |-> options.onError]]

\* options after the defaults: showToast and logError are booleans,
\* customMessage is absent or a text, onError is absent or a handler that
\* throws; what the handler throws is caught and written to the console
handleError(l, error, context, options, at) ==
    LET logged == IF options.logError THEN ErrorLoggerLog(l, error, context, at)
                  ELSE [l EXCEPT !.calls = @ + 1]
        errorId == IF options.logError THEN logged.last.result ELSE JStr(<<>>)
        message == IF options.customMessage \notin {NoItem, JStr(<<>>)}
                   THEN [from |-> "custom", text |-> options.customMessage.v]
                   ELSE getErrorDisplayMessage(error, context)
        toasted == IF options.showToast THEN [logged EXCEPT !.toasts = @ + 1] ELSE logged
        marked == IF errorId.v # <<>> THEN markAsHandled(toasted, errorId.v) ELSE toasted
        threw == \/ errorId = Thrown
                 \/ message = Thrown
                 \/ options.showToast /\ classifyErrorSeverity(error) = TypeError
    IN  IF threw
        THEN [logged EXCEPT !.last = [op |-> "handleError", error |-> error, result |-> Thrown,
                                      onError |-> options.onError]]
        ELSE [marked EXCEPT !.last = [op |-> "handleError", error |-> error, result |-> errorId,
                                      onError |-> options.onError]]

\* The logger filled by one caller up to its limit, then called with every
\* kind of value through log and through handleError.
LogNext ==
    /\ errorLog.calls < maxLogs + MaxOverlog
    /\ UNCHANGED <<storeVars, retry, cache, disk, report, boot, api, http>>
    /\ LET Failure(status, message) ==
               [status |-> status, code |-> NoItem, message |-> message]
           down == <<"d", "o", "w", "n">>
       IN  \/ /\ errorLog.calls < maxLogs - 1
              /\ errorLog' = ErrorLoggerLog(errorLog, Failure(JNum(500), down),
                                            [action |-> ""], now)
           \/ /\ errorLog.calls >= maxLogs - 1
              /\ \E error \in {Failure(JNum(404), down), Failure(NoItem, NetworkMessage)} :
                    errorLog' = ErrorLoggerLog(errorLog, error, [action |-> "login"], now)
           \/ /\ errorLog.calls >= maxLogs - 1
              /\ \E error \in {Failure(JNum(503), down),
                               Failure(NoItem, <<>>),
                               [status |-> JNum(404), code |-> NoItem],
                               [status |-> NoItem, code |-> JStr(NETWORK_ERROR)],
                               [status |-> NoItem, code |-> JStr(<<"E", "X">>)],
                               [status |-> NoItem, code |-> NoItem],
                               JStr(<<"o", "o", "p", "s">>), JNull, undefined},
                    action \in {"", "login"},
                    showToast \in BOOLEAN, logError \in BOOLEAN,
                    customMessage \in {NoItem, JStr(<<"S", "o", "r", "r", "y">>)},
                    onError \in {"absent", "throws"} :
                    errorLog' = handleError(errorLog, error, [action |-> action],
                                            [showToast |-> showToast, logError |-> logError,
                                             customMessage |-> customMessage,
                                             onError |-> onError], now)

(***************************************************************************)
(* The API client: one logical call, sent bare or, as useSubmitQuery does, *)
(* wrapped in withRetry.  The request config carries _retry and retryCount *)
(* from a request to its re-send; every attempt of withRetry starts from a *)
(* new config.                                                             *)
(***************************************************************************)
retryAttempts == 3
retryDelay == 1000

\* no call made: `requests` counts the HTTP requests of the logical call,
\* `statuses` are the responses received, `delays` the waits of the
\* interceptor, `thrown` the status of the ApiError thrown last
NotSent ==
    [pc |-> "idle", wrapped |-> FALSE, _retry |-> FALSE, retryCount |-> 0, requests |-> 0,
     statuses |-> <<>>, delays |-> <<>>, toasts |-> 0, thrown |-> 0]

\* the response interceptor on a response with an error status
onRejected(h, status) ==
    LET count == h.retryCount + 1
        failed == [h EXCEPT !.pc = "thrown", !.toasts = @ + 1, !.thrown = status]
    IN  IF status \in {500, 502, 503, 504} /\ ~h._retry
        THEN IF count <= retryAttempts
             THEN [h EXCEPT !._retry = TRUE, !.retryCount = count, !.pc = "backoff",
                            !.delays = Append(@, retryDelay * (2 ^ h.retryCount))]
             ELSE [failed EXCEPT !._retry = TRUE, !.retryCount = count]
        ELSE failed

HttpNext ==
    /\ UNCHANGED <<storeVars, cache, disk, report, boot, errorLog, api>>
    /\ \* apiClient.post, bare or inside withRetry({maxAttempts: 3, delay: 1000, backoff: true})
       \/ \E wrapped \in BOOLEAN :
             /\ http.pc = "idle"
             /\ http' = [NotSent EXCEPT !.pc = "sent", !.wrapped = wrapped, !.requests = 1]
             /\ retry' = IF wrapped
                         THEN LoopHead(Destructure(3, 1000, JBool(TRUE), TRUE))
                         ELSE retry
       \* the server answers the request in flight
       \/ \E status \in {200, 404, 500, 503} :
             /\ http.pc = "sent"
             /\ LET received == [http EXCEPT !.statuses = Append(@, status)]
                    h == IF status = 200 THEN [received EXCEPT !.pc = "returned"]
                         ELSE onRejected(received, status)
                    settled == IF status = 200 THEN [t |-> "response", v |-> 1]
                               ELSE ErrorObject(Len(retry.invoked) + 1, status)
                    invoked == [retry EXCEPT !.inFlight = @ - 1,
                                             !.invoked = Append(@, [ok |-> status = 200,
                                                                    settled |-> settled])]
                IN  /\ http' = h
                    /\ retry' = IF ~http.wrapped \/ h.pc = "backoff" THEN retry
                                ELSE IF status = 200
                                THEN [invoked EXCEPT !.pc = "resolved", !.settled = settled]
                                ELSE Catch(invoked, settled)
       \* the interceptor's timer fires: client(originalRequest)
       \/ /\ http.pc = "backoff"
          /\ http' = [http EXCEPT !.pc = "sent", !.requests = @ + 1]
          /\ retry' = retry
       \* the timer of withRetry fires: the next attempt sends a new request
       \/ /\ http.wrapped
          /\ http.pc = "thrown"
          /\ retry.pc = "sleep"
          /\ retry' = LoopHead([retry EXCEPT !.attempt = @ + 1])
          /\ http' = [http EXCEPT !.pc = "sent", !._retry = FALSE, !.retryCount = 0,
                                  !.requests = @ + 1]

(***************************************************************************)
(* Hydration of the store by the persist middleware when the page loads.   *)
(* The hydrated state is kept as the JavaScript value it is: what the slot *)
(* holds decides its shape.                                                *)
(***************************************************************************)
JsState(state) == JObj([f \in DOMAIN state |-> JsField(state, f)])

migrate(persistedState, version) ==
    IF version = JNum(0) THEN JsState(initialState) ELSE persistedState

\* { ...currentState, ...persistedState }: the own enumerable keys of an
\* object, the indices of an array or of a string, nothing of anything else
merge(persistedState, currentState) ==
    LET keys == CASE persistedState.t = "obj" -> DOMAIN persistedState.v
                  [] persistedState.t \in {"arr", "str"} ->
                        {Digits[i] : i \in DOMAIN persistedState.v}
                  [] OTHER -> {}
        own(k) == CASE persistedState.t = "obj" -> persistedState.v[k]
                    [] persistedState.t = "arr" -> persistedState.v[DigitOf(k) + 1]
                    [] OTHER -> JStr(<<persistedState.v[DigitOf(k) + 1]>>)
    IN  JObj([k \in (DOMAIN currentState.v) \cup keys |->
                 IF k \in keys THEN own(k) ELSE currentState.v[k]])

\* the state set by hydration and whether the stored state was migrated
hydrate(ls, currentState) ==
    LET value == getItem(ls, PERSIST_NAME)
        truthy == value \notin {JNull, undefined, JBool(FALSE), JNum(0), JStr(<<>>)}
        prop(k) == IF value.t = "obj" /\ k \in DOMAIN value.v THEN value.v[k] ELSE undefined
        migrated == /\ truthy
                    /\ prop("version").t = "num"
                    /\ prop("version") # JNum(PERSIST_VERSION)
        persistedState == IF ~truthy THEN undefined
                          ELSE IF migrated THEN migrate(prop("state"), prop("version"))
                          ELSE prop("state")
    IN  [state |-> merge(persistedState, currentState), migrated |-> migrated]

\* what the slot can hold when the page loads: no item, text, scalars, and
\* objects with the states of earlier visits under every version tag
StoredBlobs ==
    LET partial(state) == JObj([f \in DOMAIN partialize(state) |-> JsField(state, f)])
        StoredStates ==
            {partial(initialState),
                 partial([initialState EXCEPT !.user = JObj(UserA), !.appSettings.theme = DARK,
                                              !.activeChatId = JNull]),
                 JObj([appSettings |-> JObj([theme |-> JStr(DARK)])]),
                 JObj([appSettings |-> JNull]),
                 JObj([user |-> JStr(UserA.username)]),
                 JObj([chatSettings |-> JObj([searchApprovalEnabled |-> JBool(FALSE)])]),
                 JObj([assistantPanel |-> JArr(<<>>)]),
                 JObj([theme |-> JStr(DARK), sidebarCollapsed |-> JBool(TRUE)]),
                 JObj(<<>>), JNull, JStr(<<"o", "k">>), JNum(7), JArr(<<JNum(7)>>)}
    IN  {NoItem, RawText(<<>>), RawText(<<"{">>), JNull, JNum(0), JNum(5), JBool(TRUE),
         JStr(<<"o", "k">>), JArr(<<>>), JObj(<<>>), JObj([version |-> JNum(0)]),
         JObj([version |-> JNum(PERSIST_VERSION)])}
        \cup {JObj([state |-> s]) : s \in StoredStates}
        \cup {JObj([state |-> s, version |-> v]) :
                s \in StoredStates,
                v \in {JNum(0), JNum(PERSIST_VERSION), JNum(PERSIST_VERSION + 1),
                       JStr(<<"1">>), JNull}}

Booted == [pc |-> "hydrated", blob |-> NoItem, state |-> JsState(initialState)]

HydrateStep(ls, b) ==
    /\ localStorage' = ls
    /\ boot' = b
    /\ UNCHANGED <<store, now, lastOp, opsLeft, retry, cache, disk, report, errorLog,
                   api, http>>

HydrateNext ==
    \* the page is opened again on whatever the slot holds by then
    \/ \E blob \in StoredBlobs :
          /\ boot.pc = "hydrated"
          /\ boot.blob = NoItem
          /\ HydrateStep([localStorage EXCEPT ![PERSIST_NAME] = blob],
                         [pc |-> "loading", blob |-> blob, state |-> JsState(initialState)])
    \* persist's hydrate on the store just constructed; a migrated state is
    \* written back through partialize
    \/ /\ boot.pc = "loading"
       /\ LET h == hydrate(localStorage, boot.state)
              partial == JObj([f \in DOMAIN partialize(initialState) |-> h.state.v[f]])
          IN  HydrateStep(setItem(localStorage, PERSIST_NAME,
                                  JObj([state |-> partial, version |-> JNum(PERSIST_VERSION)]),
                                  h.migrated),
                          [boot EXCEPT !.pc = "hydrated", !.state = h.state])

(***************************************************************************)
(* The API actions of the store (createApiActions) over the session and    *)
(* source caches.  `server` is what the backend holds; every request is    *)
(* answered.  `op` and `fromCache` tell the last action and whether it     *)
(* took its list from a cache.                                             *)
(***************************************************************************)
ApiIdle ==
    [server |-> [sessions |-> <<SessionIdA>>,
                 sources |-> <<SourceData("1", "a"), SourceData("2", "b")>>],
     sessions |-> <<>>, sources |-> <<>>, op |-> "none", fromCache |-> FALSE]

ApiNext ==
    /\ opsLeft > 0
    /\ opsLeft' = opsLeft - 1
    /\ UNCHANGED <<store, localStorage, lastOp, retry, disk, report, boot, errorLog, http>>
    /\ LET userId == CHOOSE u \in CacheUserIds : TRUE
           Without(list, id) == SelectSeq(list, LAMBDA x : x # id)
           WithoutSource(list, id) == SelectSeq(list, LAMBDA x : x.id # id)
       IN  \* fetchUserSessions(userId, forceRefresh)
           \/ \E forceRefresh \in BOOLEAN :
                 LET got == IF forceRefresh THEN cache ELSE SessionCacheGet(cache, userId, now)
                     cached == IF forceRefresh THEN JNull ELSE got.last.result
                 IN  /\ now' = now
                     /\ IF cached # JNull
                        THEN /\ cache' = got
                             /\ api' = [api EXCEPT !.sessions = cached.v,
                                                   !.op = "fetchUserSessions",
                                                   !.fromCache = TRUE]
                        ELSE /\ cache' = SessionCacheSet(got, userId,
                                                         JArr(api.server.sessions), now)
                             /\ api' = [api EXCEPT !.sessions = api.server.sessions,
                                                   !.op = "fetchUserSessions",
                                                   !.fromCache = FALSE]
           \* createNewSession(userId, title)
           \/ \E id \in {SessionIdA, SessionIdB} :
                 /\ \A i \in DOMAIN api.server.sessions : api.server.sessions[i] # id
                 /\ now' = now
                 /\ cache' = SessionCacheInvalidate(cache, userId)
                 /\ api' = [api EXCEPT !.server.sessions = <<id>> \o @,
                                       !.sessions = <<id>> \o @,
                                       !.op = "createNewSession", !.fromCache = FALSE]
           \* deleteUserSession(sessionId)
           \/ \E i \in DOMAIN api.server.sessions :
                 LET sessionId == api.server.sessions[i]
                 IN  /\ now' = now
                     /\ cache' = cache
                     /\ api' = [api EXCEPT !.server.sessions = Without(@, sessionId),
                                           !.sessions = Without(@, sessionId),
                                           !.op = "deleteUserSession", !.fromCache = FALSE]
           \* deleteAllUserSessions(userId)
           \/ /\ now' = now
              /\ cache' = SessionCacheInvalidate(cache, userId)
              /\ api' = [api EXCEPT !.server.sessions = <<>>, !.sessions = <<>>,
                                    !.op = "deleteAllUserSessions", !.fromCache = FALSE]
           \* fetchSources(forceRefresh)
           \/ \E forceRefresh \in BOOLEAN :
                 LET valid == ~forceRefresh /\ SourceCacheIsValid(cache, now).last.result.v
                     got == IF valid THEN SourceCacheGet(cache, now) ELSE cache
                     cached == IF valid THEN got.last.result ELSE JNull
                 IN  /\ now' = now
                     /\ IF cached # JNull
                        THEN /\ cache' = got
                             /\ api' = [api EXCEPT !.sources = cached.v,
                                                   !.op = "fetchSources", !.fromCache = TRUE]
                        ELSE /\ cache' = SourceCacheSet(got, api.server.sources, now)
                             /\ api' = [api EXCEPT !.sources = api.server.sources,
                                                   !.op = "fetchSources", !.fromCache = FALSE]
           \* removeSource(sourceId)
           \/ \E i \in DOMAIN api.server.sources :
                 LET sourceId == api.server.sources[i].id
                 IN  /\ now' = now
                     /\ cache' = SourceCacheRemoveSource(cache, sourceId, now)
                     /\ api' = [api EXCEPT !.server.sources = WithoutSource(@, sourceId),
                                           !.sources = WithoutSource(@, sourceId),
                                           !.op = "removeSource", !.fromCache = FALSE]
           \* time passes between two actions
           \/ \E step \in {1, SESSION_CACHE_DURATION} :
                 /\ now' = now + step
                 /\ cache' = cache
                 /\ api' = [api EXCEPT !.op = "wait", !.fromCache = FALSE]

(***************************************************************************)
(* Initial state: a fresh browser, the store just constructed and its      *)
(* partial view written by the first hydration.                            *)
(***************************************************************************)
Created(budget) ==
    /\ store = initialState
    /\ localStorage = [k \in {PERSIST_NAME} |->
                          Stringify(StorageValue(partialize(initialState), PERSIST_VERSION))]
    /\ now = StartTime
    /\ lastOp = Ran("create", <<>>, FALSE, FALSE)
    /\ opsLeft = budget
    /\ retry = NotCalled
    /\ cache = EmptyCaches
    /\ disk = [op |-> "none", saved |-> NotLoaded, loaded |-> NotLoaded]
    /\ report = NothingReported
    /\ boot = Booted
    /\ errorLog = EmptyLog
    /\ api = ApiIdle
    /\ http = NotSent

(***************************************************************************)
(* Steps of the store.  Every action is one setState under the persist     *)
(* middleware: the new state replaces the old one and its partial view is  *)
(* written through the adapter.                                            *)
(***************************************************************************)
StoreStep(newState, ran) ==
    /\ opsLeft > 0
    /\ opsLeft' = opsLeft - 1
    /\ store' = newState
    /\ localStorage' = setItem(localStorage, PERSIST_NAME,
                               StorageValue(partialize(newState), PERSIST_VERSION), TRUE)
    /\ lastOp' = ran
    /\ UNCHANGED <<now, retry, cache, disk, report, edgeVars>>

SetUser ==
    \E user \in {JNull, JObj(UserA), JObj([id |-> <<"u", "2">>, username |-> <<"b", "o", "b">>])} :
        StoreStep([store EXCEPT !.user = user], Other)

\* the session sync effect hands over the converted list of the API
SetChatSessions ==
    \E sessions \in {SubSeq(<<ConvertedSession(SessionIdA), ConvertedSession(SessionIdB)>>, 1, n) :
                        n \in 1..Min(2, MaxSessions)} :
        StoreStep([store EXCEPT !.chatSessions = sessions], Other)

\* handleNewChat builds the session with its greeting
AddChatSession ==
    \E id \in {SessionIdA, SessionIdB} \ SessionIdsOf(store) :
        LET session == [id |-> id, title |-> NewChatTitle, createdAt |-> now, updatedAt |-> now,
                        tags |-> <<>>, hasExternalSources |-> FALSE, pinned |-> FALSE,
                        messages |-> <<WelcomeMessage(now)>>]
        IN /\ Len(store.chatSessions) < MaxSessions
           /\ StoreStep([store EXCEPT !.chatSessions = <<session>> \o store.chatSessions], Other)

\* { ...s, ...updates, updatedAt: new Date() } with the stamp spread first
updateChatSessionStampFirst(state, id, updates, at) ==
    [state EXCEPT !.chatSessions =
        [i \in DOMAIN state.chatSessions |->
            LET s == state.chatSessions[i]
            IN IF s.id = id
               THEN Spread(Spread(s, [updatedAt |-> at]), updates)
               ELSE s]]

updateChatSession(state, id, updates, at) ==
    [state EXCEPT !.chatSessions =
        [i \in DOMAIN state.chatSessions |->
            LET s == state.chatSessions[i]
            IN IF s.id = id
               THEN Spread(Spread(s, updates), [updatedAt |-> at])
               ELSE s]]

UpdateChatSession ==
    \E id \in AllSessionIds,
       updates \in {[pinned |-> TRUE], [hasExternalSources |-> TRUE, tags |-> <<REDDIT>>]} :
        StoreStep(updateChatSession(store, id, updates, now), Other)

DeleteChatSession ==
    \E id \in AllSessionIds :
        StoreStep(deleteChatSession(store, id),
                  Ran("deleteChatSession", id, store.activeChatId = JStr(id), FALSE))

SetActiveChatId ==
    \E id \in {JNull} \cup {JStr(i) : i \in SessionIdsOf(store)} :
        StoreStep([store EXCEPT !.activeChatId = id], Other)

\* the message load effect hands over the converted history of the session
SetMessages ==
    LET RemoteAnswer == [id |-> <<"7", "-", "a">>, content |-> LongContent, isUser |-> FALSE,
                         timestamp |-> StartTime]
    IN \E messages \in {SubSeq(<<RemoteQuestion, RemoteAnswer>>, 1, n) :
                            n \in 0..Min(2, MaxMessages)} :
          StoreStep([store EXCEPT !.messages = messages], Other)

AddMessage ==
    \E content \in {LongContent, ShortContent} :
        /\ Len(store.messages) < MaxMessages
        /\ StoreStep(addMessage(store,
                        [id |-> FreshMessageId(store), content |-> content,
                         isUser |-> TRUE, timestamp |-> now], now),
                     Ran("addMessage", <<>>, FALSE, FALSE))

UpdateMessage ==
    \E id \in MessageIdsOf(store) \cup {MsgId4} :
        StoreStep(updateMessage(store, id, [content |-> ShortContent], now),
                  Ran("updateMessage", <<>>, FALSE, FALSE))

DeleteMessage ==
    \E id \in MessageIdsOf(store) \cup {MsgId4} :
        StoreStep(deleteMessage(store, id, now), Ran("deleteMessage", <<>>, FALSE, FALSE))

ResetStore ==
    StoreStep(resetStore(store), Ran("resetStore", <<>>, FALSE, store.user # JNull))

\* sessions, messages, identity and reset
StoreNext ==
    \* the clock advances between two actions
    \/ /\ now < StartTime + MaxClock
       /\ now' = now + 1
       /\ UNCHANGED <<store, localStorage, lastOp, opsLeft, retry, cache, disk, report, edgeVars>>
    \/ SetUser
    \/ SetChatSessions
    \/ AddChatSession
    \/ UpdateChatSession
    \/ DeleteChatSession
    \/ SetActiveChatId
    \/ SetMessages
    \/ AddMessage
    \/ UpdateMessage
    \/ DeleteMessage
    \/ ResetStore

\* the actions that write sessions and their time stamps, and the clock
StampNext ==
    \/ /\ now < StartTime + MaxClock
       /\ now' = now + 1
       /\ UNCHANGED <<store, localStorage, lastOp, opsLeft, retry, cache, disk, report, edgeVars>>
    \/ SetChatSessions
    \/ AddChatSession
    \/ UpdateChatSession
    \/ SetActiveChatId
    \/ AddMessage
    \/ UpdateMessage
    \/ DeleteMessage

\* every action of the store
AppNext ==
    \/ SetUser
    \/ SetChatSessions
    \/ AddChatSession
    \/ UpdateChatSession
    \/ DeleteChatSession
    \/ SetActiveChatId
    \/ SetMessages
    \/ AddMessage
    \/ UpdateMessage
    \/ DeleteMessage
    \* setChatSettings
    \/ \E settings \in {DefaultChatSettings,
                        [DefaultChatSettings EXCEPT
                            !.searchApprovalEnabled = FALSE,
                            !.externalSources.reddit = FALSE,
                            !.querySettings.redditUsername = <<"a", "n", "n">>]} :
           StoreStep([store EXCEPT !.chatSettings = settings], Other)
    \* setAppSettings
    \/ \E settings \in {[theme |-> DARK], [sidebarCollapsed |-> TRUE, rightPanelOpen |-> FALSE]} :
           StoreStep([store EXCEPT !.appSettings = Spread(store.appSettings, settings)], Other)
    \* toggleTheme
    \/ StoreStep([store EXCEPT !.appSettings =
                     Spread(store.appSettings,
                            [theme |-> IF store.appSettings.theme = LIGHT THEN DARK ELSE LIGHT])],
                 Other)
    \* toggleSidebarCollapsed
    \/ StoreStep([store EXCEPT !.appSettings =
                     Spread(store.appSettings,
                            [sidebarCollapsed |-> ~store.appSettings.sidebarCollapsed])],
                 Other)
    \* setRightPanelOpen
    \/ \E open \in BOOLEAN :
           StoreStep([store EXCEPT !.appSettings =
                         Spread(store.appSettings, [rightPanelOpen |-> open])],
                     Other)
    \* setAssistantPanel
    \/ \E panel \in {[isOpen |-> TRUE, externalSources |-> [AllSourcesOn EXCEPT !.github = FALSE]],
                     [selectedTags |-> <<REDDIT>>]} :
           StoreStep([store EXCEPT !.assistantPanel = Spread(store.assistantPanel, panel)], Other)
    \* toggleAssistantPanel
    \/ StoreStep([store EXCEPT !.assistantPanel =
                     Spread(store.assistantPanel, [isOpen |-> ~store.assistantPanel.isOpen])],
                 Other)
    \* setIsLoading
    \/ \E loading \in BOOLEAN : StoreStep([store EXCEPT !.isLoading = loading], Other)
    \* setChatSettingsOpen
    \/ \E open \in BOOLEAN : StoreStep([store EXCEPT !.chatSettingsOpen = open], Other)
    \* setExternalDialogOpen
    \/ \E open \in BOOLEAN : StoreStep([store EXCEPT !.externalDialogOpen = open], Other)
    \* setPendingQuery
    \/ \E query \in {<<>>, <<"w", "h", "y">>} :
           StoreStep([store EXCEPT !.pendingQuery = query], Other)
    \/ ResetStore

(***************************************************************************)
(* The query cache asked with queries and settings whose texts hold the    *)
(* separator of the key: every entry is stored with the answer to its own  *)
(* query and settings.                                                     *)
(***************************************************************************)
KeyNext ==
    /\ opsLeft > 0
    /\ opsLeft' = opsLeft - 1
    /\ UNCHANGED <<store, localStorage, now, lastOp, retry, disk, edgeVars>>
    /\ \E query \in {<<"a">>, <<"A", " ">>, <<"a", "-", "b">>},
          model_name \in {<<"c">>, <<"b", "-", "c">>},
          sub_category \in {undefined, JStr(<<"u", "n", "d", "e", "f", "i", "n", "e", "d">>)} :
          LET state == [model_name |-> model_name, category |-> JStr(<<"t">>),
                        sub_category |-> sub_category, temperatureTenths |-> 7,
                        top_k |-> 12]
              asked == [query |-> query, state |-> state]
          IN \/ /\ cache' = QueryCacheSet(cache, query, state, JObj([answers |-> asked]), now)
                /\ report' = [op |-> "set", asked |-> asked]
             \/ /\ cache' = QueryCacheGet(cache, query, state, now)
                /\ report' = [op |-> "get", asked |-> asked]

(***************************************************************************)
(* A remote call that fails, from the request to the catch clause of its   *)
(* caller: the hook useSessions hands the error to the error handler, the  *)
(* store action fetchUserSessions shows its own toast.  `report` counts    *)
(* the calls made, the calls that failed and the toasts of the store.      *)
(***************************************************************************)
NotifyNext ==
    /\ UNCHANGED <<storeVars, retry, cache, disk, boot, api>>
    /\ LET made == IF report = NothingReported
                   THEN [caller |-> "none", calls |-> 0, failures |-> 0, shown |-> 0]
                   ELSE report
       IN  \* the caller awaits getUserSessions(userId)
           \/ \E caller \in {"useSessions", "fetchUserSessions"} :
                 /\ http.pc \in {"idle", "returned", "caught"}
                 /\ made.calls < MaxCalls
                 /\ http' = [NotSent EXCEPT !.pc = "sent", !.requests = 1,
                                            !.toasts = http.toasts]
                 /\ report' = [made EXCEPT !.caller = caller, !.calls = @ + 1]
                 /\ errorLog' = errorLog
           \* the server answers the request in flight
           \/ \E status \in {200, 404, 500, 503} :
                 /\ http.pc = "sent"
                 /\ http' = IF status = 200
                            THEN [http EXCEPT !.pc = "returned", !.statuses = Append(@, status)]
                            ELSE onRejected([http EXCEPT !.statuses = Append(@, status)], status)
                 /\ UNCHANGED <<report, errorLog>>
           \* the interceptor's timer fires: client(originalRequest)
           \/ /\ http.pc = "backoff"
              /\ http' = [http EXCEPT !.pc = "sent", !.requests = @ + 1]
              /\ UNCHANGED <<report, errorLog>>
           \* the catch clause of the caller
           \/ /\ http.pc = "thrown"
              /\ http' = [http EXCEPT !.pc = "caught"]
              /\ IF made.caller = "useSessions"
                 THEN /\ errorLog' = handleError(errorLog,
                                        [status |-> JNum(http.thrown), code |-> NoItem,
                                         message |-> <<"d", "o", "w", "n">>],
                                        [action |-> "session_load"],
                                        [showToast |-> TRUE, logError |-> TRUE,
                                         customMessage |-> NoItem, onError |-> "absent"], now)
                      /\ report' = [made EXCEPT !.failures = @ + 1]
                 ELSE /\ errorLog' = errorLog
                      /\ report' = [made EXCEPT !.failures = @ + 1, !.shown = @ + 1]

(***************************************************************************)
(* Sign-in and sign-out around the store.  The auth provider holds the     *)
(* authenticated user and profile; `report` is its state with the number   *)
(* of sign-ins so far.  The store changes through Index's auth sync effect *)
(* and through what the signed-in user does on the chat page.              *)
(***************************************************************************)
SignOutNext ==
    LET auth == IF report = NothingReported THEN [user |-> JNull, signIns |-> 0] ELSE report
        authOnly == UNCHANGED <<storeVars, retry, cache, disk, edgeVars>>
    IN  \* the auth provider authenticates a user and loads the profile
        \/ \E u \in {UserA, [id |-> <<"u", "2">>, username |-> <<"b", "o", "b">>]} :
              /\ auth.user = JNull
              /\ auth.signIns < MaxSignIns
              /\ report' = [user |-> JObj(u), signIns |-> auth.signIns + 1]
              /\ authOnly
        \* Index: if (user && profile && !storeUser) useAppStore.setState({ user: userData })
        \/ /\ auth.user # JNull
           /\ store.user = JNull
           /\ store' = [store EXCEPT !.user = JObj([id |-> auth.user.v.id,
                                                    username |-> auth.user.v.username])]
           /\ localStorage' = setItem(localStorage, PERSIST_NAME,
                                      StorageValue(partialize(store'), PERSIST_VERSION), TRUE)
           /\ UNCHANGED <<now, lastOp, opsLeft, retry, cache, disk, report, edgeVars>>
        \* UserProfilePopover.handleSignOut: await signOut(), then a toast
        \/ /\ auth.user # JNull
           /\ report' = [auth EXCEPT !.user = JNull]
           /\ authOnly
        \* the chat page in use
        \/ AddChatSession
        \/ AddMessage

(***************************************************************************)
(* Loading the messages of the active session: the hook useSessionMessages *)
(* of the chat page and the effect that converts what it loaded into the   *)
(* store.  `report` is the state of the hook with its requests in flight;  *)
(* a step is a handler together with the effects its state changes run.    *)
(***************************************************************************)
\* what the backend holds for a session: one question and its answer for a
\* remote session, nothing for an id it does not know
SessionMessagesOf(sessionId) ==
    IF sessionId \notin {SessionIdA, SessionIdB} THEN <<>>
    ELSE <<[message_id |-> IF sessionId = SessionIdA THEN <<"7">> ELSE <<"8">>,
            session_id |-> sessionId,
            content |-> [question |-> ShortContent,
                         answer |-> IF sessionId = SessionIdA THEN LongContent ELSE <<>>],
            timestamp |-> StartTime]>>

\* sessionMessages.flatMap(...) of the message load effect
RECURSIVE convertMessages(_)
convertMessages(sessionMessages) ==
    IF sessionMessages = <<>> THEN <<>>
    ELSE LET msg == Head(sessionMessages)
             question == IF msg.content.question # <<>>
                         THEN <<[id |-> msg.message_id \o <<"-", "q", "u", "e", "s", "t", "i", "o", "n">>,
                                 content |-> msg.content.question, isUser |-> TRUE,
                                 timestamp |-> msg.timestamp]>>
                         ELSE <<>>
             answer == IF msg.content.answer # <<>>
                       THEN <<[id |-> msg.message_id \o <<"-", "a", "n", "s", "w", "e", "r">>,
                               content |-> msg.content.answer, isUser |-> FALSE,
                               timestamp |-> msg.timestamp, message_id |-> msg.message_id]>>
                       ELSE <<>>
         IN question \o answer \o convertMessages(Tail(sessionMessages))

FetchNext ==
    LET hook == IF report = NothingReported
                THEN [data |-> JNull, loading |-> FALSE, inFlight |-> <<>>, mounted |-> FALSE,
                      selects |-> 0]
                ELSE report
        \* the message load effect of Index
        Loaded(state, data, messagesLoading) ==
            IF data # JNull /\ Len(data.v) > 0 /\ state.activeChatId # JNull
            THEN [state EXCEPT !.messages = convertMessages(data.v)]
            ELSE IF data # JNull /\ Len(data.v) = 0 /\ state.activeChatId # JNull
                    /\ ~messagesLoading
            THEN [state EXCEPT !.messages = <<>>]
            ELSE IF state.activeChatId = JNull THEN [state EXCEPT !.messages = <<>>]
            ELSE state
        \* fetchMessages: abort() on the controller of the request before, whose
        \* signal no request was given; then a new request
        Fetching(h, sessionId) ==
            [h EXCEPT !.loading = TRUE,
                      !.inFlight = [i \in DOMAIN @ |-> [@[i] EXCEPT !.aborted = TRUE]]
                                   \o <<[sessionId |-> sessionId, aborted |-> FALSE]>>]
        Stored(state) ==
            /\ store' = state
            /\ localStorage' = setItem(localStorage, PERSIST_NAME,
                                       StorageValue(partialize(state), PERSIST_VERSION), TRUE)
            /\ UNCHANGED <<now, lastOp, opsLeft, retry, cache, disk, boot, api, http>>
    IN  \* the page mounts with the session of the initial state active
        \/ /\ ~hook.mounted
           /\ report' = [Fetching(hook, store.activeChatId.v) EXCEPT !.mounted = TRUE]
           /\ errorLog' = errorLog
           /\ Stored(Loaded(Loaded(store, hook.data, hook.loading), hook.data, TRUE))
        \* the session sync effect: the remote sessions arrive
        \/ /\ hook.mounted
           /\ SessionIdA \notin SessionIdsOf(store)
           /\ LET listed == [store EXCEPT !.chatSessions = <<ConvertedSession(SessionIdA),
                                                             ConvertedSession(SessionIdB)>>]
                  selected == [listed EXCEPT !.activeChatId = JStr(SessionIdA)]
              IN  /\ report' = Fetching(hook, SessionIdA)
                  /\ errorLog' = errorLog
                  /\ Stored(Loaded(Loaded(selected, hook.data, hook.loading), hook.data, TRUE))
        \* onSelectChat(id) in the sidebar
        \/ \E id \in SessionIdsOf(store) :
              /\ hook.mounted
              /\ hook.selects < MaxSelects
              /\ LET selected == [store EXCEPT !.activeChatId = JStr(id), !.messages = <<>>]
                 IN  /\ report' = [Fetching(hook, id) EXCEPT !.selects = @ + 1]
                     /\ errorLog' = errorLog
                     /\ Stored(Loaded(Loaded(selected, hook.data, hook.loading),
                                      hook.data, TRUE))
        \* a request in flight is answered, in any order
        \/ \E i \in DOMAIN hook.inFlight, ok \in BOOLEAN :
              LET request == hook.inFlight[i]
                  rest == SubSeq(hook.inFlight, 1, i - 1)
                             \o SubSeq(hook.inFlight, i + 1, Len(hook.inFlight))
                  data == IF ok THEN JArr(SessionMessagesOf(request.sessionId)) ELSE JNull
              IN  /\ report' = [hook EXCEPT !.data = data, !.loading = FALSE, !.inFlight = rest]
                  /\ errorLog' = IF ok THEN errorLog
                                 ELSE handleError(errorLog,
                                         [status |-> JNum(500), code |-> NoItem,
                                          message |-> <<"d", "o", "w", "n">>],
                                         [action |-> "message_load"],
                                         [showToast |-> TRUE, logError |-> TRUE,
                                          customMessage |-> NoItem, onError |-> "absent"], now)
                  /\ Stored(Loaded(store, data, FALSE))

(***************************************************************************)
(* submitNewQuery and submitRedditQuery of the API store, each split at    *)
(* its await: the part up to the request, and the continuation or the      *)
(* catch clause when the request settles.  `report` holds the query slice  *)
(* of the store with the calls in flight and the calls that completed.     *)
(***************************************************************************)
QueryNext ==
    LET q == IF report = NothingReported
             THEN [loading |-> FALSE, activeQuery |-> JNull, queryHistory |-> <<>>,
                   lastResponse |-> JNull, error |-> JNull, toasts |-> 0, uuids |-> 0,
                   inFlight |-> <<>>, completed |-> <<>>]
             ELSE report
    IN  /\ UNCHANGED <<storeVars, retry, cache, disk, edgeVars>>
        /\  \* up to `await submitQuery(request)` / `await submitRedditQuery(request)`
            \/ \E query \in {<<"H", "i">>, <<"y", "o">>}, sessionId \in {SessionIdA, SessionIdB},
                  kind \in {"query", "reddit"} :
                  LET call == [id |-> IntegerText(q.uuids + 1), query |-> query,
                               sessionId |-> sessionId]
                  IN  /\ q.uuids < MaxQueries
                      /\ report' = [q EXCEPT !.loading = TRUE, !.error = JNull,
                                             !.activeQuery = JObj(call),
                                             !.uuids = @ + 1,
                                             !.inFlight = Append(@, [call |-> call, kind |-> kind])]
            \* a request settles, in any order
            \/ \E i \in DOMAIN q.inFlight, ok \in BOOLEAN :
                  LET sent == q.inFlight[i]
                      rest == SubSeq(q.inFlight, 1, i - 1)
                                 \o SubSeq(q.inFlight, i + 1, Len(q.inFlight))
                      done == [q EXCEPT !.loading = FALSE, !.activeQuery = JNull,
                                        !.inFlight = rest,
                                        !.completed = Append(@, [call |-> sent.call,
                                                                 kind |-> sent.kind, ok |-> ok])]
                      keep == SliceTo(q.queryHistory, 49)
                  IN  report' =
                        IF ok
                        THEN [done EXCEPT !.lastResponse = JStr(sent.call.id),
                                          !.queryHistory =
                                              <<[id |-> sent.call.id, query |-> sent.call.query,
                                                 sessionId |-> sent.call.sessionId,
                                                 success |-> TRUE]>> \o keep]
                        ELSE IF sent.kind = "reddit"
                        THEN [done EXCEPT !.error = JStr(<<"d", "o", "w", "n">>),
                                          !.toasts = @ + 1]
                        ELSE IF q.activeQuery # JNull
                        THEN [done EXCEPT !.error = JStr(<<"d", "o", "w", "n">>),
                                          !.toasts = @ + 1,
                                          !.queryHistory =
                                              <<[id |-> q.activeQuery.v.id,
                                                 query |-> q.activeQuery.v.query,
                                                 sessionId |-> q.activeQuery.v.sessionId,
                                                 success |-> FALSE]>> \o keep]
                        ELSE [q EXCEPT !.toasts = @ + 1, !.inFlight = rest,
                                       !.completed = Append(@, [call |-> sent.call,
                                                                kind |-> sent.kind, ok |-> ok])]

vars == <<store, localStorage, now, lastOp, opsLeft, retry, cache, disk, report,
          boot, errorLog, api, http>>

Spec == Created(MaxOps) /\ [][StoreNext]_vars

SpecApp == Created(MaxAppOps) /\ [][AppNext]_vars

\* one call of withRetry
SpecRetry == Created(0) /\ [][RetryNext]_vars

\* round trips through customStorage
SpecDisk == Created(0) /\ [][DiskNext]_vars

\* calls of classifyErrorSeverity
SpecClassify == Created(0) /\ [][Classify]_vars

\* the error logger from empty to full and beyond
SpecLog == Created(0) /\ [][LogNext]_vars

\* one logical call of the API client
SpecHttp == Created(0) /\ [][HttpNext]_vars

\* the API actions of the store
SpecApi == Created(MaxApiOps) /\ [][ApiNext]_vars

\* page loads over every stored blob
SpecHydrate == Created(0) /\ [][HydrateNext]_vars

\* the query cache from empty to full and beyond
SpecQueryFull == Created(0) /\ [][QueryFullNext]_vars

\* the messages of the active session loaded while the user switches
SpecFetch == Created(0) /\ [][FetchNext]_vars

\* sessions, messages and the clock
SpecStamp == Created(MaxStampOps) /\ [][StampNext]_vars

\* overlapping query submissions
SpecQuery == Created(0) /\ [][QueryNext]_vars

\* sign-in, the chat page and sign-out
SpecSignOut == Created(MaxSignOps) /\ [][SignOutNext]_vars

\* remote calls that fail, up to the notification of the user
SpecNotify == Created(0) /\ [][NotifyNext]_vars

\* the query cache under keys that hold the separator
SpecKey == Created(MaxKeyOps) /\ [][KeyNext]_vars

\* the three caches and the clock
SpecCache == Created(MaxCacheOps) /\ [][CacheNext]_vars

\* the same call when every invocation of the operation settles and every
\* timer fires
SpecRetryFair ==
    /\ SpecRetry
    /\ WF_vars(OperationResolves \/ OperationRejects)
    /\ WF_vars(TimerFires)

(***************************************************************************)
(* Properties of the store.                                                *)
(***************************************************************************)
MessageOps == {"addMessage", "updateMessage", "deleteMessage"}
StoreActed == opsLeft' = opsLeft - 1

\* C1: after addMessage, updateMessage or deleteMessage, run while
\* activeChatId names a session, the flat messages list and that session's
\* embedded messages list have the same length and the same elements
C1_DualWrite ==
    (lastOp.op \in MessageOps /\ ActiveNamesSession(store)) =>
        \A i \in DOMAIN store.chatSessions :
            IsActive(store, store.chatSessions[i]) =>
                /\ Len(store.chatSessions[i].messages) = Len(store.messages)
                /\ \A k \in DOMAIN store.messages :
                        store.chatSessions[i].messages[k] = store.messages[k]

\* addMessage on a synced session (embedded list empty) whose messages
\* came from a remote load: the two lists differed before the call
C1_Witness ==
    /\ lastOp.op = "addMessage"
    /\ store.activeChatId = JStr(SessionIdA)
    /\ ActiveNamesSession(store)
    /\ Len(store.messages) = 2
    /\ store.messages[1] = RemoteQuestion
    /\ ActiveSession(store).messages = store.messages

\* C2: deleteChatSession(id) removes exactly the session with that id and
\* adds none; when id was active the first remaining session becomes active,
\* or null when none remains; otherwise activeChatId keeps its value
C2_DeleteSession ==
    [][(lastOp'.op = "deleteChatSession" /\ StoreActed) =>
        LET id == lastOp'.id
            before == store.chatSessions
            after == store'.chatSessions
            kept == {i \in DOMAIN before : before[i].id # id}
        IN  /\ Len(after) = Cardinality(kept)
            /\ \A i \in DOMAIN after : after[i].id # id
            /\ \A i \in kept : after[Cardinality({j \in kept : j <= i})] = before[i]
            /\ IF store.activeChatId = JStr(id)
               THEN IF Len(after) > 0
                    THEN store'.activeChatId = JStr(after[1].id)
                    ELSE store'.activeChatId = JNull
               ELSE store'.activeChatId = store.activeChatId]_vars

C2_Witness ==
    /\ lastOp.op = "deleteChatSession"
    /\ lastOp.wasActive
    /\ Len(store.chatSessions) = 1
    /\ store.activeChatId = JStr(store.chatSessions[1].id)

\* C3: addMessage into an active session without any message sets its title
\* to the first 60 characters of the content; addMessage made when the
\* conversation of the active session already holds messages keeps the title
C3_TitleDerivation ==
    [][(lastOp'.op = "addMessage" /\ StoreActed /\ ActiveNamesSession(store)) =>
        LET before == ActiveSession(store)
            after == ActiveSession(store')
            message == store'.messages[Len(store'.messages)]
        IN  /\ (Len(before.messages) = 0 /\ Len(store.messages) = 0) =>
                    after.title = SliceTo(message.content, TITLE_LEN)
            /\ Len(store.messages) > 0 => after.title = before.title]_vars

PersistedFields == {"user", "activeChatId", "appSettings", "chatSettings", "assistantPanel"}

Settled == retry.pc \in {"resolved", "rejected"}
Successes == {i \in DOMAIN retry.invoked : retry.invoked[i].ok}
\* the index of the first success, or beyond every budget when there is none
FirstSuccess ==
    IF Successes = {} THEN MaxAttemptsBound + 2
    ELSE CHOOSE i \in Successes : \A j \in Successes : i <= j

C4_Sequential ==
    /\ retry.inFlight <= 1
    /\ retry.inFlight = (IF retry.pc = "await" THEN 1 ELSE 0)
    /\ \A i \in DOMAIN retry.invoked : retry.invoked[i].ok => i = Len(retry.invoked)
    /\ (Successes # {}) => /\ retry.pc = "resolved"
                           /\ retry.settled = retry.invoked[FirstSuccess].settled
    /\ (Settled /\ retry.maxAttempts >= 0) =>
          Len(retry.invoked) = Min(FirstSuccess, retry.maxAttempts)

\* C4: withRetry never has two invocations of the operation in flight, makes
\* no invocation after a success, returns the result of the first success,
\* has made exactly min(index of first success, maxAttempts) invocations
\* when it settles, and a call that was made always settles when every
\* invocation settles.
C4_RetryUntilSuccess ==
    /\ []C4_Sequential
    /\ (retry.pc # "idle") ~> Settled

\* the second of three attempts succeeded, after one retry
C4_Witness ==
    /\ retry.pc = "resolved"
    /\ retry.maxAttempts = 3
    /\ Len(retry.invoked) = 2
    /\ ~retry.invoked[1].ok
    /\ retry.settled = retry.invoked[2].settled

\* C5: when the operation has failed on all maxAttempts invocations
\* (maxAttempts >= 1), withRetry rejects with the very error object the last
\* invocation threw, status included.
C5_Exhaustion ==
    (/\ retry.maxAttempts >= 1
     /\ Len(retry.invoked) = retry.maxAttempts
     /\ Successes = {}
     /\ retry.inFlight = 0) =>
        /\ retry.pc = "rejected"
        /\ retry.settled = retry.invoked[retry.maxAttempts].settled
        /\ retry.settled.t = "error"
        /\ retry.settled.v.ref = retry.maxAttempts

\* three failures, the last with another status than the first
C5_Witness ==
    /\ retry.pc = "rejected"
    /\ retry.maxAttempts = 3
    /\ Len(retry.invoked) = 3
    /\ retry.invoked[1].settled.v.status = 500
    /\ retry.invoked[3].settled.v.status = 404
    /\ retry.settled = ErrorObject(3, 404)

(***************************************************************************)
(* Properties of the caches.                                               *)
(***************************************************************************)
\* the time to live the claim names, in milliseconds
TimeToLive(which) == IF which = "query" THEN 10 * 60 * 1000 ELSE 5 * 60 * 1000

\* when the set that stored the slot's value ran (0: no such value)
InsertedAt(c, call) ==
    CASE call.cache = "session" -> c.insertedAt.session[call.key]
      [] call.cache = "source" -> c.insertedAt.source
      [] call.cache = "query" -> c.insertedAt.query[call.key]

Holds(c, call) ==
    CASE call.cache = "session" -> c.session.cache[call.key] # undefined
      [] call.cache = "source" -> c.source.cache # JNull
      [] call.cache = "query" -> QueryIndex(c.query, call.key) # 0

CacheCalled == opsLeft' = opsLeft - 1

\* what C6 asks of one get on a cache of the given kinds
TTLObserved(kinds) ==
    (CacheCalled /\ cache'.last.op = "get" /\ cache'.last.cache \in kinds) =>
        LET got == cache'.last
            set == cache.last
            at == InsertedAt(cache, got)
        IN /\ (set.op = "set" /\ set.cache = got.cache /\ set.key = got.key /\ at = now)
                 => got.result = set.value
           /\ (got.result # JNull) => (at # 0 /\ now - at <= TimeToLive(got.cache))
           /\ (at # 0 /\ now - at > TimeToLive(got.cache))
                 => (got.result = JNull /\ ~Holds(cache', got))
           /\ (at = 0) => got.result = JNull

\* C6: for the session, source and query caches, get(k) directly after
\* set(k, v) returns v; a value is returned only while now - insertedAt is
\* at most the time to live (5 minutes for session and source, 10 minutes
\* for query); the first get(k) later than that returns null and removes
\* the entry, and gets stay null until the next set.
C6_CacheTTL == [][TTLObserved({"session", "source", "query"})]_vars

(***************************************************************************)
(* Properties of customStorage.                                            *)
(***************************************************************************)
\* C7: for every persistable value, Date fields and arbitrary strings such
\* as usernames included, setItem followed by getItem yields a value
\* deep-equal to the one saved: every Date is a Date again and every string
\* is still a string.
C7_RoundTrip ==
    (disk.saved # NotLoaded /\ disk.loaded # NotLoaded) => (disk.loaded = disk.saved)

(***************************************************************************)
(* Properties of classifyErrorSeverity.                                    *)
(***************************************************************************)
HeuristicWords ==
    {<<"n", "e", "t", "w", "o", "r", "k">>,
     <<"c", "o", "n", "n", "e", "c", "t", "i", "o", "n">>,
     <<"v", "a", "l", "i", "d", "a", "t", "i", "o", "n">>,
     <<"i", "n", "v", "a", "l", "i", "d">>,
     <<"u", "n", "a", "u", "t", "h", "o", "r", "i", "z", "e", "d">>,
     <<"f", "o", "r", "b", "i", "d", "d", "e", "n">>}

\* C8: low for status 400, 404 and 422; medium for 401, 403 and 429; high
\* for 500, 502, 503 and 504; high for a network transport error (code
\* NETWORK_ERROR, no status); medium for an error that matches nothing; and
\* a status that is present decides the severity whatever words the message
\* contains.
C8_Classification ==
    (report # NothingReported) =>
        LET error == report.error.v
            hasStatus == error.status.t = "num"
        IN /\ (hasStatus /\ error.status.v \in {400, 404, 422}) => report.severity = "low"
           /\ (hasStatus /\ error.status.v \in {401, 403, 429}) => report.severity = "medium"
           /\ (hasStatus /\ error.status.v \in {500, 502, 503, 504}) => report.severity = "high"
           /\ (hasStatus /\ error.status.v \notin {400, 401, 403, 404, 422, 429, 500, 502, 503, 504})
                 => report.severity = "medium"
           /\ (~hasStatus /\ error.code = JStr(NETWORK_ERROR)) => report.severity = "high"
           /\ (/\ ~hasStatus
               /\ error.code # JStr(NETWORK_ERROR)
               /\ \A w \in HeuristicWords : ~includes(toLowerCase(error.message), w))
                 => report.severity = "medium"

\* a rate-limited request whose message speaks of the connection
C8_Witness ==
    /\ report # NothingReported
    /\ report.error.v.status = JNum(429)
    /\ report.error.v.message = NetworkMessage
    /\ report.severity = "medium"

\* C19: getItem returns null when the key is absent and when the stored text
\* is not valid JSON, without throwing; a setItem that fails leaves the
\* store state and the blob stored before as they were; removeItem leaves
\* the key absent whatever it held.
C19_AdapterFailures ==
    [][LET blob == localStorage[PERSIST_NAME] IN
       /\ (disk'.op = "getItem" /\ (blob = NoItem \/ blob.t = "text"))
             => disk'.loaded = JNull
       /\ (disk'.op = "setItem failed") => (store' = store /\ localStorage' = localStorage)
       /\ (disk'.op = "removeItem") => localStorage'[PERSIST_NAME] = NoItem]_vars

\* text that is not JSON was read, and a write failed over a saved value
C19_Witness ==
    \/ /\ disk.op = "getItem"
       /\ localStorage[PERSIST_NAME] = RawText(<<"{">>)
       /\ disk.loaded = JNull
    \/ /\ disk.op = "setItem failed"
       /\ disk.saved # NotLoaded
       /\ localStorage[PERSIST_NAME] = Stringify(disk.saved)

\* a value has the fields of a template, field by field
RECURSIVE HasShape(_, _)
HasShape(value, template) ==
    /\ value.t = template.t
    /\ template.t = "obj" =>
          \A k \in DOMAIN template.v :
              k \in DOMAIN value.v /\ HasShape(value.v[k], template.v[k])

ValidState(state) ==
    /\ state.t = "obj"
    /\ state.v.user.t \in {"null", "obj"}
    /\ \A f \in {"appSettings", "chatSettings", "assistantPanel"} :
          HasShape(state.v[f], JsState(initialState).v[f])

\* C11: hydration from any stored blob ends in a valid store state (user
\* null or a profile; appSettings, chatSettings and assistantPanel present
\* with all their fields), and a blob tagged version 0 leaves the default
\* initial state.
C11_HydrationFallback ==
    (boot.pc = "hydrated") =>
        /\ ValidState(boot.state)
        /\ (boot.blob.t = "obj" /\ "version" \in DOMAIN boot.blob.v
              /\ boot.blob.v.version = JNum(0))
              => boot.state = JsState(initialState)

\* C12: the query cache never holds more than 100 entries, and a set on a
\* full cache evicts one entry, the one whose timestamp is the earliest: an
\* entry set again later than the others is not the one evicted.
C12_EvictOldest ==
    [][LET before == {cache.query[i] : i \in DOMAIN cache.query}
           kept == {cache'.query[i].key : i \in DOMAIN cache'.query}
           evicted == {e \in before : e.key \notin kept}
       IN  /\ Len(cache'.query) <= MAX_CACHE_SIZE
           /\ (cache'.last.cache = "query" /\ cache'.last.op = "set"
                 /\ Len(cache.query) >= MAX_CACHE_SIZE)
                 => /\ Cardinality(evicted) <= 1
                    /\ \A e \in evicted : \A o \in before : e.timestamp <= o.timestamp]_vars

\* C13: after n calls of log the buffer holds the min(n, 100) entries logged
\* last, newest first, and the id a call returns is the id of no other entry
\* of the buffer.
C13_RingBuffer ==
    LET logs == errorLog.logs
        n == Len(errorLog.logged)
        Same(a, b) == [a EXCEPT !.handled = FALSE] = b
    IN  /\ Len(logs) = Min(n, maxLogs)
        /\ \A i \in DOMAIN logs : Same(logs[i], errorLog.logged[n - i + 1])
        /\ \A i \in DOMAIN logs : \A j \in DOMAIN logs : logs[i].id = logs[j].id => i = j
        /\ (errorLog.last.op = "log" /\ errorLog.last.result # Thrown)
              => /\ logs[1].id = errorLog.last.result.v
                 /\ \A i \in DOMAIN logs : i # 1 => logs[i].id # errorLog.last.result.v

\* more than 100 entries were logged and the oldest is gone
C13_Witness ==
    /\ Len(errorLog.logged) > maxLogs
    /\ Len(errorLog.logs) = maxLogs
    /\ errorLog.last.op = "log"
    /\ errorLog.logs[1].id = errorLog.last.result.v
    /\ errorLog.logs[maxLogs] = errorLog.logged[Len(errorLog.logged) - maxLogs + 1]

\* C14: handleError throws for no value given as the error: it returns the
\* id of the entry it logged, or the empty string, and every entry of the
\* log is a whole entry.
C14_NeverThrows ==
    (errorLog.last.op = "handleError") =>
        /\ errorLog.last.result # Thrown
        /\ \A i \in DOMAIN errorLog.logs :
              errorLog.logs[i].severity \in {"low", "medium", "high", "critical"}
        /\ errorLog.last.result.v # <<>> =>
              \E i \in DOMAIN errorLog.logs :
                  errorLog.logs[i].id = errorLog.last.result.v /\ errorLog.logs[i].handled

\* C18: after the k-th failed attempt, k < maxAttempts, onRetry(k, error of
\* attempt k) is called once and before the wait, the wait is
\* delay * 2^(k-1) with backoff (the default) and delay without, attempt
\* k + 1 starts only after it, and the last failed attempt is followed by
\* neither.
C18_RetryPacing ==
    LET failures == {k \in DOMAIN retry.invoked : ~retry.invoked[k].ok}
        paced == {k \in failures : k < retry.maxAttempts}
    IN  (retry.pc # "idle" /\ retry.maxAttempts >= 1) =>
           /\ DOMAIN retry.waited = paced
           /\ DOMAIN retry.retried = (IF retry.onRetry THEN paced ELSE {})
           /\ \A k \in paced :
                 /\ retry.waited[k].ms =
                       (IF retry.backoff THEN retry.delay * (2 ^ (k - 1)) ELSE retry.delay)
                 /\ retry.onRetry =>
                       /\ retry.retried[k] = [attempt |-> k, error |-> retry.invoked[k].settled]
                       /\ retry.waited[k].retried = k
           /\ (retry.pc = "sleep") => (retry.inFlight = 0 /\ Len(retry.invoked) = Len(retry.waited))
           /\ (retry.pc = "await") => (Len(retry.invoked) = Len(retry.waited))

\* three failed attempts with the default backoff: two calls of onRetry,
\* waits of 1000 and 2000 ms, nothing after the third failure
C18_Witness ==
    /\ retry.pc = "rejected"
    /\ retry.maxAttempts = 3
    /\ retry.onRetry
    /\ Len(retry.invoked) = 3
    /\ [k \in DOMAIN retry.waited |-> retry.waited[k].ms] = <<1000, 2000>>
    /\ Len(retry.retried) = 2

\* the logical call is over: thrown to the caller or returned
CallOver ==
    IF http.wrapped THEN retry.pc \in {"resolved", "rejected"}
    ELSE http.pc \in {"returned", "thrown"}

\* C20: a request answered by 5xx every time is sent 3 times, 1000 ms and
\* then 2000 ms apart, before the error is thrown to the caller, and no
\* logical call makes more than 3 HTTP requests, wrapped in withRetry or not.
C20_RetryBudget ==
    /\ http.requests <= retryAttempts
    /\ (/\ ~http.wrapped
        /\ CallOver
        /\ http.pc = "thrown"
        /\ \A i \in DOMAIN http.statuses : http.statuses[i] \in {500, 502, 503, 504})
          => /\ http.requests = retryAttempts
             /\ http.delays = <<retryDelay, 2 * retryDelay>>

\* C15: in every reachable state of the store whose activeChatId names a
\* session of chatSessions, whatever store action or UI flow led there, the
\* flat message list equals the `messages` of that session.
C15_GlobalDualWrite ==
    ActiveNamesSession(store) => store.messages = ActiveSession(store).messages

\* C16: across every step that is not the user deleting a session or
\* signing out, a session that stays in the list keeps hasExternalSources
\* once it is true and keeps every tag it has.
C16_ForwardOnlyProvenance ==
    [][(lastOp'.op \notin {"deleteChatSession", "resetStore"}) =>
          \A i \in DOMAIN store.chatSessions : \A j \in DOMAIN store'.chatSessions :
              LET before == store.chatSessions[i]
                  after == store'.chatSessions[j]
              IN  (before.id = after.id) =>
                     /\ before.hasExternalSources => after.hasExternalSources
                     /\ \A k \in DOMAIN before.tags :
                           \E m \in DOMAIN after.tags : after.tags[m] = before.tags[k]]_vars

\* C17: a fetchUserSessions or fetchSources that is not forced and takes
\* its list from the cache hands out the list the server holds: no session
\* or source deleted since reappears, no session created since is missing.
C17_InvalidationOnMutation ==
    (api.fromCache /\ api.op = "fetchUserSessions" => api.sessions = api.server.sessions)
    /\ (api.fromCache /\ api.op = "fetchSources" => api.sources = api.server.sources)

\* C30: for every maxAttempts, zero and negative values included, withRetry
\* invokes the operation at least once, and when it rejects the reason is
\* an error that an invocation of the operation threw, never undefined.
C30_DegenerateBudget ==
    Settled =>
        /\ Len(retry.invoked) >= 1
        /\ (retry.pc = "rejected") =>
              /\ retry.settled # undefined
              /\ \E i \in DOMAIN retry.invoked :
                    ~retry.invoked[i].ok /\ retry.invoked[i].settled = retry.settled

\* C29: a source list stored by sourceCache.set at time t is not returned
\* by get, and isValid is false, at any time later than t + 5 minutes,
\* whatever addSource and removeSource calls came in between; those calls
\* change the cached list only and leave the time of the last update alone.
C29_SourceFreshness ==
    [][(CacheCalled /\ cache'.last.cache = "source") =>
          LET called == cache'.last
              late == cache.insertedAt.source # 0
                         /\ now - cache.insertedAt.source > SOURCE_CACHE_DURATION
          IN /\ (called.op = "get" /\ late) => called.result = JNull
             /\ (called.op = "isValid" /\ late) => called.result = JBool(FALSE)
             /\ (called.op \in {"addSource", "removeSource"})
                   => cache'.source.lastUpdate = cache.source.lastUpdate]_vars

\* what decides the cache slot according to C28
EffectiveInput(asked) ==
    <<trim(toLowerCase(asked.query)), asked.state.model_name, asked.state.category,
      asked.state.sub_category, asked.state.temperatureTenths, asked.state.top_k>>

\* C28: two (query, settings) pairs share a cache slot exactly when their
\* normalized query text and their model, category, sub-category,
\* temperature and top-k are equal, so get returns only a response that was
\* stored for the same effective query and settings.
C28_ExactKey ==
    [][(opsLeft' = opsLeft - 1 /\ report # NothingReported) =>
          /\ (generateCacheKey(report.asked.query, report.asked.state)
                 = generateCacheKey(report'.asked.query, report'.asked.state))
             <=> (EffectiveInput(report.asked) = EffectiveInput(report'.asked))
          /\ (report'.op = "get" /\ cache'.last.result # JNull)
                => EffectiveInput(cache'.last.result.v.answers) = EffectiveInput(report'.asked)]_vars

\* the sessions of the given ids carry the time of the call as updatedAt,
\* not earlier than before, and every other session keeps its updatedAt
Stamped(before, after, targets, at) ==
    /\ Len(after.chatSessions) = Len(before.chatSessions)
    /\ \A i \in DOMAIN before.chatSessions :
          LET s == before.chatSessions[i]
              t == after.chatSessions[i]
          IN /\ t.id = s.id
             /\ IF s.id \in targets
                THEN t.updatedAt = at /\ t.updatedAt >= s.updatedAt
                ELSE t.updatedAt = s.updatedAt

IsErrorObject(error) == "t" \notin DOMAIN error /\ "message" \in DOMAIN error

\* C24: handleError called with an error object and logging enabled returns
\* the id of an entry that is in the log and marked handled when the call
\* returns, also when the onError callback throws (nothing propagates out
\* of handleError); with logError false it returns the empty string and
\* leaves the log as it was.
C24_HandledOnReturn ==
    [][(/\ errorLog'.calls = errorLog.calls + 1
        /\ errorLog'.last.op = "handleError"
        /\ IsErrorObject(errorLog'.last.error)) =>
          LET result == errorLog'.last.result
              logError == errorLog'.uuids = errorLog.uuids + 1
          IN /\ result # Thrown
             /\ logError =>
                   /\ result.v # <<>>
                   /\ \A i \in DOMAIN errorLog.logs : errorLog.logs[i].id # result.v
                   /\ \E i \in DOMAIN errorLog'.logs :
                         /\ errorLog'.logs[i].id = result.v
                         /\ errorLog'.logs[i].handled
                         /\ errorLog'.logs[i].error = errorLog'.last.error
             /\ ~logError =>
                   /\ result = JStr(<<>>)
                   /\ errorLog'.logs = errorLog.logs]_vars

\* handleError returned the id of a handled entry although onError threw
C24_Witness ==
    /\ errorLog.last.op = "handleError"
    /\ IsErrorObject(errorLog.last.error)
    /\ errorLog.last.onError = "throws"
    /\ errorLog.last.result # Thrown
    /\ errorLog.last.result.v # <<>>
    /\ errorLog.logs[1].id = errorLog.last.result.v
    /\ errorLog.logs[1].handled

\* C25: for every failed remote call exactly one notification is shown and
\* exactly one log entry is added, both by handleError; the interceptor of
\* the API client, the hooks and the store actions show none of their own.
C25_SingleNotification ==
    (report # NothingReported /\ http.pc \in {"returned", "caught"}) =>
        /\ http.toasts + errorLog.toasts + report.shown = report.failures
        /\ errorLog.toasts = report.failures
        /\ Len(errorLog.logs) = report.failures

\* C26: in every state of the store, also directly after setChatSessions,
\* setActiveChatId, addChatSession or deleteChatSession, activeChatId is
\* null or the id of a session in chatSessions.
C26_ActivePointerValid ==
    store.activeChatId = JNull \/ ActiveNamesSession(store)

\* C21: after sign-out the user of the store is null, in memory and in the
\* persisted blob, so while a user is signed in the store holds no user or
\* that user, never the one signed in before.
C21_SignOutClearsIdentity ==
    (report # NothingReported) =>
        /\ (report.user = JNull) =>
              /\ store.user = JNull
              /\ getItem(localStorage, PERSIST_NAME).v.state.v.user = JNull
        /\ (report.user # JNull /\ store.user # JNull) => store.user.v.id = report.user.v.id

\* C22: when the active session changes while a fetch of the messages of
\* the session before is in flight, that fetch is aborted and its response
\* is never applied: the store never holds the messages of one session
\* while activeChatId names another.
C22_SupersededFetchCancelled ==
    \A a \in {SessionIdA, SessionIdB} :
        (store.activeChatId # JNull /\ store.activeChatId.v # a) =>
            store.messages # convertMessages(SessionMessagesOf(a))

\* C27: every call of submitNewQuery that completed has exactly one entry
\* in queryHistory, with its own id, query text and session id and with
\* success telling its own outcome; once no query is in flight loading.query
\* is false and activeQuery is null; queryHistory holds at most 50 entries,
\* the newest first.
C27_HistoryAttribution ==
    (report # NothingReported) =>
        LET own == SelectSeq(report.completed, LAMBDA c : c.kind = "query")
            made == SelectSeq(report.completed, LAMBDA c : c.kind = "query" \/ c.ok)
        IN /\ \A k \in DOMAIN own :
                 LET c == own[k]
                     entries == {i \in DOMAIN report.queryHistory :
                                    report.queryHistory[i].id = c.call.id}
                 IN /\ Cardinality(entries) = 1
                    /\ \A i \in entries :
                          report.queryHistory[i] =
                             [id |-> c.call.id, query |-> c.call.query,
                              sessionId |-> c.call.sessionId, success |-> c.ok]
           /\ (report.inFlight = <<>>) =>
                 (report.loading = FALSE /\ report.activeQuery = JNull)
           /\ Len(report.queryHistory) <= 50
           /\ Len(report.queryHistory) = Len(made)
           /\ \A i \in DOMAIN report.queryHistory :
                 i <= Len(made) =>
                    report.queryHistory[i].id = made[Len(made) + 1 - i].call.id

====
